---- MODULE Spec2Model ----
(***************************************************************************)
(* EAIP Viewer: the import pipeline (ImportWorker.run over                  *)
(* ZipExtractor.extract) and the thread life cycle around it               *)
(* (DataManager.importDataFromZip / _onImportFinished).                    *)
(*                                                                         *)
(* Two specifications share this module.                                   *)
(*   Spec    one ImportWorker at a time over the data directory: every      *)
(*           statement of run() up to the point where it ends, with the     *)
(*           failures the code handles drawn nondeterministically.          *)
(*   SpecUI  the UI thread and the worker threads: import requests, the     *)
(*           queued signals of the workers, deleteLater.                    *)
(*                                                                         *)
(* Environment assumption of Spec: shutil.rmtree of the scratch directory   *)
(* and of a cycle directory succeeds (the failures drawn are those of the   *)
(* archive, of writing an entry, and of the rename of the move step).       *)
(***************************************************************************)
EXTENDS Integers, Sequences, FiniteSets, TLC

VARIABLES
    fs,             \* the data directory: scratch directory and cycle directories
    pc,             \* position of ImportWorker.run
    zip_path,       \* ImportWorker.zip_path (an archive id)
    airac_period,   \* ImportWorker.airac_period
    dir_name,       \* ImportWorker.dir_name
    index,          \* loop index of ZipExtractor.extract
    root_folder,    \* root_folder of run(), None before it is found
    events,         \* signals emitted by the current worker, in order
    extractErr,     \* how extract() ended for the current import
    ioFault,        \* an I/O failure was drawn during the current import
    dataAtStart,    \* fs.data when the current import started
    nImports,       \* number of imports started so far
    import_worker,  \* DataManager._import_worker (0 is None)
    thread,         \* state of each worker thread
    postedEvents,   \* event queue of the UI thread
    nextWorker,     \* next worker object to be created
    signals,        \* signals DataManager has emitted (counts)
    dm_source,      \* worker whose period/dir_name DataManager copied last
    lastCall,       \* outcome of the last importDataFromZip call
    crashed,        \* the process was aborted by Qt
    dm_airac_period, \* DataManager._airac_period
    dm_dir_name,    \* DataManager._dir_name
    eaip_handler,   \* DataManager._eaip_handler: its airac_period and dir_name
    cache,          \* files of data/cache
    lastQuery,      \* the last call of the read path: what it read and returned
    terminal_tree,  \* ChartProcessor.terminal_path: the PDFs of each airport directory
    enroute_pdfs,   \* the PDFs of ChartProcessor.enroute_path
    index_json,     \* the index.json of each airport directory and of ENROUTE
    futures,        \* the tasks submitted to the pool of generate_index
    total_charts,   \* total_charts of generate_index
    max_workers,    \* ChartProcessor.max_workers
    fitz,           \* PyMuPDF is installed
    listing,        \* the order in which the OS lists a directory
    treeAtStart,    \* terminal_tree when generate_index was called
    gen_pc,         \* position of generate_index
    ren_tree,       \* the files below ChartProcessor.data_path
    ad_json,        \* AD.JSON: whether the file exists, and its records
    enr_json,       \* ENR.JSON: whether the file exists, and its records
    overwrites,     \* Path.rename replaces an existing destination (POSIX)
    denied,         \* the paths the operating system refuses to rename
    ren_pc,         \* position of rename_chart_files
    ren_pos,        \* index of the next record of the current manifest
    ren_run,        \* which run of rename_chart_files this is
    renamed_count,  \* renames performed by the current run
    firstRun,       \* tree and number of renames at the end of the first run
    resolved,       \* what the calls of _extract_airac_period on root_folder returned
    ex_zip,         \* the archive given to ZipExtractor.extract
    ex_callback,    \* whether a progress_callback is registered
    ex_pc,          \* position of extract() and of the except clauses of run()
    ex_index,       \* entries extracted so far
    ex_path,        \* the destination directory extract_path
    ex_path0,       \* the destination directory when extract() was called
    ex_calls,       \* the invocations of progress_callback, in order
    ex_cause,       \* what went wrong, as the operating system or zipfile saw it
    ex_raised,      \* the exception that left extract()
    ex_message,     \* the message of the terminal failure event
    org_pc,         \* position of organize_airport_files
    org_airports,   \* the airports still to organize, the current one first
    org_pdf_files,  \* the root-level PDFs of the current airport still to look at
    moved_count,    \* files organize_airport_files has moved
    org_replaces,   \* Path.rename replaces an existing destination (POSIX)
    pinned_charts,  \* PinModel._pinned_charts, as the chart ids in order
    max_pins,       \* PinModel._max_pins
    pin_last,       \* the last call on the PinModel and what it returned
    DEFAULT_CONFIG, \* the nested dicts of Config.DEFAULT_CONFIG, one per section
    config,         \* Config._config of the current instance
    config_file,    \* the settings file
    cfg_last        \* the last call on the Config

pipeVars == <<fs, pc, zip_path, airac_period, dir_name, index, root_folder,
              events, extractErr, ioFault, dataAtStart, nImports>>
uiVars == <<import_worker, thread, postedEvents, nextWorker, signals,
            dm_source, lastCall, crashed>>
dmVars == <<dm_airac_period, dm_dir_name, eaip_handler, cache, lastQuery>>
idxVars == <<terminal_tree, enroute_pdfs, index_json, futures, total_charts,
             max_workers, fitz, listing, treeAtStart, gen_pc>>
renVars == <<ren_tree, ad_json, enr_json, overwrites, denied, ren_pc, ren_pos, ren_run,
             renamed_count, firstRun>>
perVars == <<resolved>>
exVars == <<ex_zip, ex_callback, ex_pc, ex_index, ex_path, ex_path0, ex_calls,
            ex_cause, ex_raised, ex_message>>
orgVars == <<org_pc, org_airports, org_pdf_files, moved_count, org_replaces>>
pinVars == <<pinned_charts, max_pins, pin_last>>
cfgVars == <<DEFAULT_CONFIG, config, config_file, cfg_last>>
laterVars == <<exVars, orgVars, pinVars, cfgVars>>
extVars == <<dmVars, idxVars, renVars, perVars, laterVars>>
vars == <<fs, pc, zip_path, airac_period, dir_name, index, root_folder,
          events, extractErr, ioFault, dataAtStart, nImports,
          import_worker, thread, postedEvents, nextWorker, signals,
          dm_source, lastCall, crashed, extVars>>

----------------------------------------------------------------------------
(* Bounds *)

MaxImports == 3
MaxRequests == 3
MaxQueryImports == 2
MaxWorkers == 3

----------------------------------------------------------------------------
(* Names.  A name that the period resolver reads is a sequence of         *)
(* characters; path segments below the top level are plain strings.       *)

Digits == {"0", "1", "2", "3", "4", "5", "6", "7", "8", "9"}

None == <<>>

N_EAIP2025_11 == <<"E", "A", "I", "P", "2", "0", "2", "5", "-", "1", "1">>
N_EAIP_2024_3 == <<"E", "A", "I", "P", "_", "2", "0", "2", "4", "-", "3">>
N_DATA2508 == <<"D", "A", "T", "A", "2", "5", "0", "8">>
N_CHARTS == <<"C", "H", "A", "R", "T", "S">>
N_README == <<"R", "E", "A", "D", "M", "E">>

P_2505 == <<"2", "5", "0", "5">>
P_2403 == <<"2", "4", "0", "3">>

total_steps == 6

Max(a, b) == IF a >= b THEN a ELSE b

MinOf(S) == CHOOSE x \in S : \A y \in S : x <= y

----------------------------------------------------------------------------
(* Period resolver: ImportWorker._extract_airac_period *)

DigitsAt(s, i, n) ==
    /\ i + n - 1 <= Len(s)
    /\ \A k \in i..(i + n - 1) : s[k] \in Digits

\* r'(\d{4})-(\d{1,2})' matches at position i
YearMonthAt(s, i) ==
    /\ DigitsAt(s, i, 4)
    /\ i + 5 <= Len(s)
    /\ s[i + 4] = "-"
    /\ s[i + 5] \in Digits

\* str.zfill(2)
zfillNone(m) == m
zfill2(m) == IF Len(m) < 2 THEN <<"0">> \o m ELSE m

extract_airac_period(folder_name) ==
    LET ym == {i \in 1..Len(folder_name) : YearMonthAt(folder_name, i)}
        d4 == {i \in 1..Len(folder_name) : DigitsAt(folder_name, i, 4)}
    IN  IF ym # {}
        THEN LET i == MinOf(ym)
                 year == SubSeq(folder_name, i, i + 3)
                 month == IF i + 6 <= Len(folder_name) /\ folder_name[i + 6] \in Digits
                          THEN SubSeq(folder_name, i + 5, i + 6)
                          ELSE SubSeq(folder_name, i + 5, i + 5)
             IN  SubSeq(year, 3, 4) \o zfill2(month)
        ELSE IF d4 # {}
             THEN SubSeq(folder_name, MinOf(d4), MinOf(d4) + 3)
             ELSE None

----------------------------------------------------------------------------
(* Archives the user can select.  An entry is a file: top is its first    *)
(* path segment, rel the segments below it (<<>>: a file at top level).   *)

Entry(top, rel) == [top |-> top, rel |-> rel]

Archives ==
    [ missing |-> [exists |-> FALSE, readable |-> FALSE, entries |-> <<>>],
      corrupt |-> [exists |-> TRUE, readable |-> FALSE, entries |-> <<>>],
      empty   |-> [exists |-> TRUE, readable |-> TRUE, entries |-> <<>>],
      flat    |-> [exists |-> TRUE, readable |-> TRUE,
                   entries |-> << Entry(N_README, <<>>) >>],
      good    |-> [exists |-> TRUE, readable |-> TRUE,
                   entries |-> << Entry(N_EAIP2025_11, <<"Data", "EAIP", "Terminal", "ZBAA", "1.pdf">>),
                                  Entry(N_EAIP2025_11, <<"Data", "EAIP", "ENROUTE", "e.pdf">>),
                                  Entry(N_EAIP2025_11, <<"Data", "JsonPath", "AD.JSON">>) >>],
      update  |-> [exists |-> TRUE, readable |-> TRUE,
                   entries |-> << Entry(N_EAIP2025_11, <<"Data", "EAIP", "Terminal", "ZBAA", "2.pdf">>) >>],
      fallback |-> [exists |-> TRUE, readable |-> TRUE,
                   entries |-> << Entry(N_DATA2508, <<"Data", "EAIP_CN", "Terminal", "ZSSS", "1.pdf">>),
                                  Entry(N_README, <<>>) >>],
      undated |-> [exists |-> TRUE, readable |-> TRUE,
                   entries |-> << Entry(N_CHARTS, <<"Terminal", "ZBAA", "1.pdf">>),
                                  Entry(N_EAIP_2024_3, <<"Data", "EAIP", "ENROUTE", "e.pdf">>) >>],
      indexed |-> [exists |-> TRUE, readable |-> TRUE,
                   entries |-> << Entry(N_CHARTS, <<"Data", "EAIP", "Terminal", "ZBAA", "index.json">>),
                                  Entry(N_CHARTS, <<"Data", "EAIP", "Terminal", "ZBAA", "SID", "1A.pdf">>) >>],
      flattened |-> [exists |-> TRUE, readable |-> TRUE,
                   entries |-> << Entry(N_EAIP2025_11, <<"Terminal", "ZBAA", "index.json">>) >>] ]

ArchiveIds == DOMAIN Archives

\* periods DataManager can hand to a worker as the configured one
DefaultPeriods == {P_2505, P_2403}

TopNames == {N_EAIP2025_11, N_EAIP_2024_3, N_DATA2508, N_CHARTS, N_README}

AllPeriods == DefaultPeriods \cup ({extract_airac_period(n) : n \in TopNames} \ {None})

\* segment names for which name.startswith("EAIP") holds
VendorTagged == {"EAIP", "EAIP_CN"}

----------------------------------------------------------------------------
(* The data directory *)

NoDir == [exists |-> FALSE, files |-> {}]

NoTemp == [exists |-> FALSE, items |-> {}]

EmptyFs == [temp |-> NoTemp, data |-> [p \in AllPeriods |-> NoDir]]

FilesOf(f, top) == {[rel |-> i.rel, src |-> i.src] : i \in {j \in f.temp.items : j.top = top}}

\* Path.mkdir(parents=True, exist_ok=True) of the scratch directory
MkdirExtractPath(f) == [f EXCEPT !.temp.exists = TRUE]

\* ZipFile.extract(file_name, extract_path): writes (or overwrites) one file
WriteEntry(f, e, a) ==
    [f EXCEPT !.temp.items =
        {i \in @ : ~(i.top = e.top /\ i.rel = e.rel)}
            \cup {[top |-> e.top, rel |-> e.rel, src |-> a]}]

\* "if extract_path.exists(): shutil.rmtree(extract_path)" of extract()
RemoveExtractPath(f) == [f EXCEPT !.temp = NoTemp]

\* ImportWorker._cleanup_temp(temp_extract_path)
cleanup_temp(f) == [f EXCEPT !.temp = NoTemp]

\* "if final_path.exists(): shutil.rmtree(final_path)"
RemoveFinal(f, period) == [f EXCEPT !.data[period] = NoDir]

\* root_folder.rename(final_path): final_path is absent at this point
RenameTo(f, root, period) ==
    [f EXCEPT !.data[period] = [exists |-> TRUE, files |-> FilesOf(f, root)],
              !.temp.items = {i \in @ : i.top # root}]

TopLevelNames(f) == {i.top : i \in f.temp.items}

TopLevelDirs(f) == {i.top : i \in {j \in f.temp.items : j.rel # <<>>}}

----------------------------------------------------------------------------
(* Signals of ImportWorker *)

Progress(step, pct) ==
    [kind |-> "progress", step |-> step, pct |-> pct, success |-> FALSE, msg |-> ""]

Finished(success, msg) ==
    [kind |-> "finished", step |-> 0, pct |-> 0, success |-> success, msg |-> msg]

\* variant: the operands of the quotient are exchanged
PercentSwapped(current, total) == IF total > 0 THEN (total * 100) \div current ELSE 0

\* percent of extract_progress: int((current / total) * 100) if total > 0 else 0
\* (the float quotient truncates to the integer quotient for every total < 50)
Percent(current, total) == IF total > 0 THEN (current * 100) \div total ELSE 0

\* throttle of extract(): index % max(1, total_files // 100) == 0
ShouldReport(idx, total_files) == idx % Max(1, total_files \div 100) = 0

\* variant: run() relies on the final callback for the 100% event
ExtractDoneEventsNone == << >>

\* what run() emits right after extract() has returned
ExtractDoneEvents == << Progress(1, 100) >>

\* variant: an except clause of the extraction block falls through to step 2
AfterExtractFailureNoReturn == "detect"

\* every except clause of the extraction block of run() ends with "return"
AfterExtractFailure == "done"

\* variant: the except clauses remove the parent of the destination
ExtractFailureCleanupParent(f, kind) ==
    IF kind = "BadZipFile"
    THEN f
    ELSE [temp |-> NoTemp, data |-> [p \in AllPeriods |-> NoDir]]

\* except clauses of extract(): BadZipFile is re-raised as it is, OSError and
\* any other exception remove the destination first
ExtractFailureCleanup(f, kind) ==
    IF kind = "BadZipFile" THEN f ELSE RemoveExtractPath(f)

\* message class of the terminal event for an exception leaving extract()
FailureMessage(kind) ==
    CASE kind = "FileNotFoundError" -> "file_not_found"
      [] kind = "ENOSPC" -> "disk_full"
      [] kind = "OSError" -> "extract_failed_cleaned"
      [] OTHER -> "extract_failed_cleaned"

ExtractOutcomes == {"ok", "ENOSPC", "OSError", "BadZipFile", "Exception"}

\* ChartProcessor.__init__(self, data_path, dir_name="EAIP", max_workers=4)
ChartProcessorParams == {"data_path", "dir_name", "max_workers"}

\* keyword arguments of the ChartProcessor(...) call in run()
RunCallKeywords == {"max_workers", "progress_callback"}

ConstructorAccepts(keywords) == keywords \subseteq ChartProcessorParams

----------------------------------------------------------------------------
(* ImportWorker: one import *)

\* ImportWorker.__init__ followed by start(), when no import is running
ImportWorkerInit(a, p) ==
    /\ pc \in {"idle", "done"}
    /\ nImports < MaxImports
    /\ zip_path' = a
    /\ airac_period' = p
    /\ dir_name' = "EAIP"
    /\ index' = 0
    /\ root_folder' = None
    /\ events' = <<>>
    /\ extractErr' = [kind |-> "none", atEntry |-> FALSE]
    /\ ioFault' = FALSE
    /\ dataAtStart' = fs.data
    /\ nImports' = nImports + 1
    /\ pc' = "run"
    /\ UNCHANGED fs
    /\ UNCHANGED uiVars
    /\ UNCHANGED extVars

\* run(): first progress event, then extract() up to the opening of the archive
RunBegin ==
    /\ pc = "run"
    /\ LET a == Archives[zip_path]
       IN  IF ~a.exists
           THEN /\ extractErr' = [kind |-> "FileNotFoundError", atEntry |-> FALSE]
                /\ events' = events \o << Progress(1, 0), Finished(FALSE, FailureMessage("FileNotFoundError")) >>
                /\ pc' = AfterExtractFailure
                /\ UNCHANGED fs
           ELSE IF ~a.readable
           THEN /\ fs' = ExtractFailureCleanup(MkdirExtractPath(fs), "BadZipFile")
                /\ extractErr' = [kind |-> "BadZipFile", atEntry |-> FALSE]
                /\ events' = events \o << Progress(1, 0), Finished(FALSE, FailureMessage("BadZipFile")) >>
                /\ pc' = AfterExtractFailure
           ELSE /\ fs' = MkdirExtractPath(fs)
                /\ events' = Append(events, Progress(1, 0))
                /\ pc' = "extract"
                /\ UNCHANGED extractErr
    /\ index' = 0
    /\ UNCHANGED <<zip_path, airac_period, dir_name, root_folder, ioFault,
                   dataAtStart, nImports>>
    /\ UNCHANGED uiVars
    /\ UNCHANGED extVars

\* one iteration of the loop of extract(): the entry is written, or writing it
\* raises and the matching except clauses of extract() and run() execute
ExtractEntry ==
    /\ pc = "extract"
    /\ LET file_list == Archives[zip_path].entries
           total_files == Len(file_list)
       IN  /\ index < total_files
           /\ \E outcome \in ExtractOutcomes, wrote \in BOOLEAN :
                LET written == WriteEntry(fs, file_list[index + 1], zip_path)
                IN  IF outcome = "ok"
                    THEN /\ wrote
                         /\ fs' = written
                         /\ events' = IF ShouldReport(index, total_files)
                                      THEN Append(events, Progress(1, Percent(index + 1, total_files)))
                                      ELSE events
                         /\ index' = index + 1
                         /\ UNCHANGED <<pc, extractErr, ioFault>>
                    ELSE /\ fs' = ExtractFailureCleanup(IF wrote THEN written ELSE fs, outcome)
                         /\ extractErr' = [kind |-> outcome, atEntry |-> TRUE]
                         /\ ioFault' = TRUE
                         /\ events' = Append(events, Finished(FALSE, FailureMessage(outcome)))
                         /\ pc' = AfterExtractFailure
                         /\ UNCHANGED index
    /\ UNCHANGED <<zip_path, airac_period, dir_name, root_folder,
                   dataAtStart, nImports>>
    /\ UNCHANGED uiVars
    /\ UNCHANGED extVars

\* end of extract(): the final callback (total, total), return True, and the
\* event run() emits after it
ExtractFinish ==
    /\ pc = "extract"
    /\ LET total_files == Len(Archives[zip_path].entries)
       IN  /\ index = total_files
           /\ events' = Append(events, Progress(1, Percent(total_files, total_files)))
                            \o ExtractDoneEvents
    /\ extractErr' = [kind |-> "ok", atEntry |-> FALSE]
    /\ pc' = "detect"
    /\ UNCHANGED <<fs, zip_path, airac_period, dir_name, index, root_folder,
                   ioFault, dataAtStart, nImports>>
    /\ UNCHANGED uiVars
    /\ UNCHANGED extVars

\* variant: without a detected period the built-in default period is taken
period_or_default(detected_period, configured) ==
    IF detected_period # None THEN detected_period ELSE P_2505

\* self.airac_period after lines 108-115: the detected period, and without
\* one the period the worker was constructed with
period_or_configured(detected_period, configured) ==
    IF detected_period # None THEN detected_period ELSE configured

\* step 2 of run() up to the resolution of the period
DetectStructure ==
    /\ pc = "detect"
    /\ IF ~fs.temp.exists
       THEN \* iterdir() raises: outer except clause of run()
            /\ fs' = cleanup_temp(fs)
            /\ events' = events \o << Progress(2, 0), Finished(FALSE, "import_failed") >>
            /\ pc' = "done"
            /\ UNCHANGED <<root_folder, airac_period>>
       ELSE IF TopLevelNames(fs) = {}
       THEN /\ fs' = cleanup_temp(fs)
            /\ events' = events \o << Progress(2, 0), Finished(FALSE, "empty_archive") >>
            /\ pc' = "done"
            /\ UNCHANGED <<root_folder, airac_period>>
       ELSE IF TopLevelDirs(fs) = {}
       THEN /\ fs' = cleanup_temp(fs)
            /\ events' = events \o << Progress(2, 0), Progress(2, 30),
                                      Finished(FALSE, "no_data_folder") >>
            /\ pc' = "done"
            /\ UNCHANGED <<root_folder, airac_period>>
       ELSE \* the first directory in listing order, which the OS decides
            \E r \in TopLevelDirs(fs) :
                LET detected_period == extract_airac_period(r)
                IN  /\ root_folder' = r
                    /\ airac_period' = period_or_configured(detected_period, airac_period)
                    /\ events' = events \o << Progress(2, 0), Progress(2, 30),
                                              Progress(2, 50), Progress(2, 70) >>
                    /\ pc' = "move"
                    /\ UNCHANGED fs
    /\ UNCHANGED <<zip_path, dir_name, index, extractErr, ioFault,
                   dataAtStart, nImports>>
    /\ UNCHANGED uiVars
    /\ UNCHANGED extVars

\* the move step: remove final_path, rename root_folder to it, remove the
\* scratch directory; the rename can raise OSError (outer except clause)
MoveToFinal ==
    /\ pc = "move"
    /\ \E renamed \in BOOLEAN :
         LET cleared == RemoveFinal(fs, airac_period)
         IN  IF renamed
             THEN /\ fs' = cleanup_temp(RenameTo(cleared, root_folder, airac_period))
                  /\ events' = events \o << Progress(2, 85), Progress(2, 100) >>
                  /\ pc' = "process"
                  /\ UNCHANGED ioFault
             ELSE /\ fs' = cleanup_temp(cleared)
                  /\ events' = events \o << Progress(2, 85), Finished(FALSE, "import_failed") >>
                  /\ ioFault' = TRUE
                  /\ pc' = "done"
    /\ UNCHANGED <<zip_path, airac_period, dir_name, index, root_folder,
                   extractErr, dataAtStart, nImports>>
    /\ UNCHANGED uiVars
    /\ UNCHANGED extVars

\* directories of final_path/Data whose name starts with "EAIP"
\* (EaipHandler.auto_detect_dir_name)
eaip_dirs(f, period) ==
    {g.rel[2] : g \in {h \in f.data[period].files :
                          /\ Len(h.rel) >= 3
                          /\ h.rel[1] = "Data"
                          /\ h.rel[2] \in VendorTagged}}

\* step 3 of run()
ProcessCharts ==
    /\ pc = "process"
    /\ IF eaip_dirs(fs, airac_period) = {}
       THEN UNCHANGED dir_name
       ELSE \E d \in eaip_dirs(fs, airac_period) : dir_name' = d
    /\ events' = events \o << Progress(3, 0), Progress(3, 30), Progress(3, 100) >>
    /\ pc' = "rename"
    /\ UNCHANGED <<fs, zip_path, airac_period, index, root_folder, extractErr,
                   ioFault, dataAtStart, nImports>>
    /\ UNCHANGED uiVars
    /\ UNCHANGED extVars

\* step 4 of run(): the ChartProcessor(...) call raises TypeError, which the
\* outer except clause turns into the terminal event
RenameCharts ==
    /\ pc = "rename"
    /\ ~ConstructorAccepts(RunCallKeywords)
    /\ fs' = cleanup_temp(fs)
    /\ events' = events \o << Progress(4, 0), Finished(FALSE, "import_failed") >>
    /\ pc' = "done"
    /\ UNCHANGED <<zip_path, airac_period, dir_name, index, root_folder,
                   extractErr, ioFault, dataAtStart, nImports>>
    /\ UNCHANGED uiVars
    /\ UNCHANGED extVars

InitUI ==
    /\ import_worker = 0
    /\ thread = [w \in 1..MaxRequests |-> "new"]
    /\ postedEvents = <<>>
    /\ nextWorker = 1
    /\ signals = [dataImportStarted |-> 0, dataImportProgress |-> 0,
                  dataImportCompleted |-> 0, airportsLoaded |-> 0]
    /\ dm_source = 0
    /\ lastCall = "none"
    /\ crashed = FALSE

InitPipe ==
    /\ fs = EmptyFs
    /\ pc = "idle"
    /\ zip_path = "missing"
    /\ airac_period = P_2505
    /\ dir_name = "EAIP"
    /\ index = 0
    /\ root_folder = None
    /\ events = <<>>
    /\ extractErr = [kind |-> "none", atEntry |-> FALSE]
    /\ ioFault = FALSE
    /\ dataAtStart = EmptyFs.data
    /\ nImports = 0

\* DataManager.__init__: the default period and directory name, and the
\* EaipHandler made from them
\* EaipHandler.__init__: base_path is data_path / airac_period, given by the
\* name of the cycle directory, terminal_path a path below a cycle directory
EaipHandler(period, dir) ==
    [airac_period |-> period, dir_name |-> dir, base_path |-> period,
     terminal_path |-> [period |-> period, rel |-> <<"Data", dir, "Terminal">>]]

InitDM ==
    /\ dm_airac_period = P_2505
    /\ dm_dir_name = "EAIP"
    /\ eaip_handler = EaipHandler(P_2505, "EAIP")
    /\ cache = {}
    /\ lastQuery = [op |-> "none", args |-> <<>>, period |-> None, read |-> {},
                    result |-> {}, emitted |-> FALSE, unfinalized |-> FALSE]

\* no ChartProcessor is at work
InitIdx ==
    /\ terminal_tree = <<>>
    /\ enroute_pdfs = {}
    /\ index_json = <<>>
    /\ futures = <<>>
    /\ total_charts = 0
    /\ max_workers = 1
    /\ fitz = FALSE
    /\ listing = "asc"
    /\ treeAtStart = <<>>
    /\ gen_pc = "idle"

\* rename_chart_files is not at work
InitRen ==
    /\ ren_tree = {}
    /\ ad_json = [exists |-> FALSE, records |-> <<>>]
    /\ enr_json = [exists |-> FALSE, records |-> <<>>]
    /\ overwrites = TRUE
    /\ denied = {}
    /\ ren_pc = "idle"
    /\ ren_pos = 1
    /\ ren_run = 1
    /\ renamed_count = 0
    /\ firstRun = [tree |-> {}, renamed_count |-> 0]

\* _extract_airac_period has not been called on its own
InitPer == resolved = <<>>

\* ZipExtractor.extract has not been called on its own
InitEx ==
    /\ ex_zip = [exists |-> FALSE, readable |-> FALSE, total_files |-> 0]
    /\ ex_callback = FALSE
    /\ ex_pc = "idle"
    /\ ex_index = 0
    /\ ex_path = [exists |-> FALSE, files |-> 0, stale |-> 0]
    /\ ex_path0 = [exists |-> FALSE, files |-> 0, stale |-> 0]
    /\ ex_calls = <<>>
    /\ ex_cause = "none"
    /\ ex_raised = [type |-> "none", text |-> <<>>]
    /\ ex_message = <<>>

\* organize_airport_files has not been called on its own
InitOrg ==
    /\ org_pc = "idle"
    /\ org_airports = <<>>
    /\ org_pdf_files = <<>>
    /\ moved_count = 0
    /\ org_replaces = TRUE

\* PinModel() with the default of its constructor
InitPin ==
    /\ pinned_charts = <<>>
    /\ max_pins = 10
    /\ pin_last = [op |-> "none", result |-> FALSE]

\* what DEFAULT_CONFIG holds as shipped: the top-level values and the
\* nested dicts
ShippedFlat == [language |-> "zh_CN", max_pins |-> 10]
ShippedSections == [theme |-> [mode |-> "light"], import |-> [max_workers |-> "auto"]]

\* DEFAULT_CONFIG.copy(): a new top-level dict whose nested dicts are those
\* of DEFAULT_CONFIG itself
CopyOfDefault(sections) ==
    [flat |-> ShippedFlat,
     sections |-> [s \in DOMAIN sections |-> [shared |-> TRUE, own |-> sections[s]]]]

NoConfigFile ==
    [exists |-> FALSE, flat |-> ShippedFlat,
     sections |-> [s \in DOMAIN ShippedSections |-> [present |-> FALSE, content |-> ShippedSections[s]]]]

\* no Config is at work
InitCfg ==
    /\ DEFAULT_CONFIG = ShippedSections
    /\ config = CopyOfDefault(ShippedSections)
    /\ config_file = NoConfigFile
    /\ cfg_last = "none"

InitLater == InitEx /\ InitOrg /\ InitPin /\ InitCfg

InitExt == InitDM /\ InitIdx /\ InitRen /\ InitPer /\ InitLater

Init == InitPipe /\ InitUI /\ InitExt

Next ==
    \/ \E a \in ArchiveIds, p \in DefaultPeriods : ImportWorkerInit(a, p)
    \/ RunBegin
    \/ ExtractEntry
    \/ ExtractFinish
    \/ DetectStructure
    \/ MoveToFinal
    \/ ProcessCharts
    \/ RenameCharts

Spec == Init /\ [][Next]_vars

----------------------------------------------------------------------------
(* The UI thread and the worker threads.  A worker is a QThread created   *)
(* with DataManager as parent; its signals reach DataManager through the  *)
(* event queue of the UI thread.  Of run() only the emissions and the     *)
(* return matter here.                                                    *)

Workers == 1..MaxRequests

\* QThread.isRunning(): from start() until run() has returned
isRunning(w) == thread[w] \in {"started", "running", "emitted"}

\* the success flag run() can put in importFinished: line 200 is never
\* reached because the ChartProcessor(...) call of line 162 raises
RunOutcomes == {ConstructorAccepts(RunCallKeywords)}

\* guard of importDataFromZip:
\* "if self._import_worker and self._import_worker.isRunning()"
ImportInProgress == import_worker # 0 /\ isRunning(import_worker)

\* DataManager.importDataFromZip, called on the UI thread
importDataFromZip ==
    /\ ~crashed
    /\ IF ImportInProgress
       THEN /\ lastCall' = "rejected"
            /\ UNCHANGED <<import_worker, thread, nextWorker, signals>>
       ELSE /\ nextWorker <= MaxRequests
            /\ signals' = [signals EXCEPT !.dataImportStarted = @ + 1]
            /\ thread' = [thread EXCEPT ![nextWorker] = "started"]
            /\ import_worker' = nextWorker
            /\ nextWorker' = nextWorker + 1
            /\ lastCall' = "started"
    /\ UNCHANGED <<postedEvents, dm_source, crashed>>
    /\ UNCHANGED pipeVars
    /\ UNCHANGED extVars

\* run() of worker w emits progressUpdate (queued to the UI thread)
RunEmitProgress(w) ==
    /\ ~crashed
    /\ thread[w] = "started"
    /\ thread' = [thread EXCEPT ![w] = "running"]
    /\ postedEvents' = Append(postedEvents, [type |-> "progress", w |-> w, success |-> FALSE])
    /\ UNCHANGED <<import_worker, nextWorker, signals, dm_source, lastCall, crashed>>
    /\ UNCHANGED pipeVars
    /\ UNCHANGED extVars

\* run() of worker w emits importFinished (queued to the UI thread)
RunEmitFinished(w) ==
    /\ ~crashed
    /\ thread[w] = "running"
    /\ thread' = [thread EXCEPT ![w] = "emitted"]
    /\ \E ok \in RunOutcomes :
            postedEvents' = Append(postedEvents, [type |-> "finished", w |-> w, success |-> ok])
    /\ UNCHANGED <<import_worker, nextWorker, signals, dm_source, lastCall, crashed>>
    /\ UNCHANGED pipeVars
    /\ UNCHANGED extVars

\* run() of worker w returns: the thread is no longer running
RunReturn(w) ==
    /\ ~crashed
    /\ thread[w] = "emitted"
    /\ thread' = [thread EXCEPT ![w] = "finished"]
    /\ UNCHANGED <<import_worker, postedEvents, nextWorker, signals, dm_source,
                   lastCall, crashed>>
    /\ UNCHANGED pipeVars
    /\ UNCHANGED extVars

\* DataManager._onProgressUpdate
onProgressUpdate ==
    /\ ~crashed
    /\ postedEvents # <<>>
    /\ Head(postedEvents).type = "progress"
    /\ postedEvents' = Tail(postedEvents)
    /\ signals' = [signals EXCEPT !.dataImportProgress = @ + 1]
    /\ UNCHANGED <<import_worker, thread, nextWorker, dm_source, lastCall, crashed>>
    /\ UNCHANGED pipeVars
    /\ UNCHANGED extVars

\* DataManager._onImportFinished; deleteLater() posts a deferred delete
onImportFinished ==
    /\ ~crashed
    /\ postedEvents # <<>>
    /\ Head(postedEvents).type = "finished"
    /\ LET ev == Head(postedEvents)
       IN  /\ dm_source' = IF ev.success /\ import_worker # 0
                           THEN import_worker ELSE dm_source
           /\ signals' = [signals EXCEPT
                            !.airportsLoaded = IF ev.success THEN @ + 1 ELSE @,
                            !.dataImportCompleted = @ + 1]
           /\ postedEvents' =
                IF import_worker # 0
                THEN Append(Tail(postedEvents),
                            [type |-> "delete", w |-> import_worker, success |-> FALSE])
                ELSE Tail(postedEvents)
           /\ import_worker' = 0
    /\ UNCHANGED <<thread, nextWorker, lastCall, crashed>>
    /\ UNCHANGED pipeVars
    /\ UNCHANGED extVars

\* the deferred delete of a worker: ~QThread aborts the process when the
\* thread is still running
DeferredDelete ==
    /\ ~crashed
    /\ postedEvents # <<>>
    /\ Head(postedEvents).type = "delete"
    /\ LET w == Head(postedEvents).w
       IN  IF isRunning(w)
           THEN crashed' = TRUE /\ UNCHANGED thread
           ELSE thread' = [thread EXCEPT ![w] = "deleted"] /\ UNCHANGED crashed
    /\ postedEvents' = Tail(postedEvents)
    /\ UNCHANGED <<import_worker, nextWorker, signals, dm_source, lastCall>>
    /\ UNCHANGED pipeVars
    /\ UNCHANGED extVars

NextUI ==
    \/ importDataFromZip
    \/ \E w \in Workers : RunEmitProgress(w)
    \/ \E w \in Workers : RunEmitFinished(w)
    \/ \E w \in Workers : RunReturn(w)
    \/ onProgressUpdate
    \/ onImportFinished
    \/ DeferredDelete

SpecUI == Init /\ [][NextUI]_vars

----------------------------------------------------------------------------
(* Properties *)

ProgressIdx == {i \in 1..Len(events) : events[i].kind = "progress"}

FinishedIdx == {i \in 1..Len(events) : events[i].kind = "finished"}

\* the move step of the current import has been entered
ReachedMove == \E i \in 1..Len(events) : events[i] = Progress(2, 85)

LastEvent == events[Len(events)]

LexLess(a, b) == a.step < b.step \/ (a.step = b.step /\ a.pct < b.pct)

LexLeq(a, b) == a.step < b.step \/ (a.step = b.step /\ a.pct <= b.pct)

\* C1: in every import the terminal event importFinished is emitted at most
\* once, nothing is emitted after it, and a run that has ended has emitted it.
C1_TerminalOnceAndLast ==
    /\ Cardinality(FinishedIdx) <= 1
    /\ FinishedIdx # {} => FinishedIdx = {Len(events)}
    /\ pc = "done" => FinishedIdx # {}

\* a run ended by an exception of a later stage (the rename of the move step)
C1_Witness ==
    /\ pc = "done"
    /\ LastEvent = Finished(FALSE, "import_failed")
    /\ events[Len(events) - 1] = Progress(2, 85)

\* C2: at every moment at most one import is active, an import being active
\* from the start of its worker until the worker has emitted importFinished.
C2_AtMostOneActiveImport ==
    Cardinality({w \in Workers : thread[w] \in {"started", "running"}}) <= 1

\* C3: the step of the progress events never decreases, stays in 1..6, and an
\* event of step N+1 is preceded by the event (N, 100).
C3_StagesInOrder ==
    /\ \A i \in ProgressIdx : events[i].step \in 1..total_steps
    /\ \A i \in ProgressIdx : \A j \in ProgressIdx :
            i < j => events[i].step <= events[j].step
    /\ \A j \in ProgressIdx :
            events[j].step > 1 =>
                \E i \in ProgressIdx :
                    i < j /\ events[i] = Progress(events[j].step - 1, 100)

\* a run that went through stages 1, 2, 3 and entered stage 4
C3_Witness ==
    /\ pc = "done"
    /\ \E i \in ProgressIdx : events[i] = Progress(4, 0)

\* C4 as stated: consecutive progress events are strictly increasing in
\* (step, percent).
C4_StrictlyIncreasing ==
    \A i \in ProgressIdx :
        (i + 1) \in ProgressIdx => LexLess(events[i], events[i + 1])

\* C4 amended: consecutive progress events never decrease in (step, percent);
\* equal consecutive events occur.
C4_NonDecreasing ==
    \A i \in ProgressIdx :
        (i + 1) \in ProgressIdx => LexLeq(events[i], events[i + 1])

\* the callback of the last entry, the final callback and run() all report 100
C4_Witness ==
    /\ Len(Archives[zip_path].entries) > 1
    /\ \E i \in ProgressIdx :
          /\ (i + 2) \in ProgressIdx
          /\ events[i] = Progress(1, 100)
          /\ events[i + 1] = Progress(1, 100)
          /\ events[i + 2] = Progress(1, 100)

\* C5: the import of the well-formed archive, with no I/O failure, ends with
\* success = true (the counts of the claim come with that event).
C5_WellFormedCompletes ==
    (pc = "done" /\ zip_path = "good" /\ ~ioFault) => LastEvent.success

\* C6: when extract() has failed while an entry was being written, the
\* destination directory does not exist.
C6_AllOrNothing ==
    (pc = "done" /\ extractErr.atEntry) => ~fs.temp.exists

\* C7: when extract() has failed because the archive could not be read, the
\* destination directory does not exist.
C7_CorruptLeavesNothing ==
    (pc = "done" /\ extractErr.kind = "BadZipFile" /\ ~extractErr.atEntry)
        => ~fs.temp.exists

\* C8: when the terminal event reports a failure, the scratch directory does
\* not exist.
C8_FailedRemovesScratch ==
    (pc = "done" /\ ~LastEvent.success) => ~fs.temp.exists

\* C9: when an import has failed before the move step, every cycle directory
\* is what it was when the import started.
C9_CyclesUntouchedBeforeMove ==
    (pc = "done" /\ ~LastEvent.success /\ ~ReachedMove) => fs.data = dataAtStart

\* an import targeting an existing cycle has failed before the move step
C9_Witness ==
    /\ pc = "done"
    /\ ~ReachedMove
    /\ zip_path \in {"update", "empty", "flat"}
    /\ dataAtStart[extract_airac_period(N_EAIP2025_11)].exists
    /\ fs.data[extract_airac_period(N_EAIP2025_11)].files # {}

\* the files of archive a below its top-level folder top
ArchiveFolder(a, top) ==
    {[rel |-> Archives[a].entries[k].rel, src |-> a] :
        k \in {n \in 1..Len(Archives[a].entries) : Archives[a].entries[n].top = top}}

\* C10: once DetectingStructure has completed, data/<period> holds exactly
\* the files the imported archive has in the top-level folder that was moved,
\* the other cycle directories are what they were when the import started,
\* and the scratch directory does not exist.
C10_MoveReplacesInFull ==
    (\E i \in ProgressIdx : events[i] = Progress(2, 100)) =>
        /\ fs.data[airac_period] =
                [exists |-> TRUE, files |-> ArchiveFolder(zip_path, root_folder)]
        /\ \A p \in AllPeriods \ {airac_period} : fs.data[p] = dataAtStart[p]
        /\ ~fs.temp.exists

----------------------------------------------------------------------------
(* Finalizing: run() from line 184 on, with _cleanup_import_files.  A      *)
(* cycle directory is the set of its files; a directory exists when a file *)
(* lies below it.                                                          *)

HasPrefix(rel, pre) ==
    /\ Len(rel) >= Len(pre)
    /\ SubSeq(rel, 1, Len(pre)) = pre

\* Path.exists() of base_path / pre
PathExists(c, pre) == \E x \in c : HasPrefix(x.rel, pre)

\* the files at or below base_path / pre
Subtree(c, pre) == {x \in c : HasPrefix(x.rel, pre)}

\* shutil.rmtree(base_path / pre)
rmtree(c, pre) == c \ Subtree(c, pre)

\* shutil.move(src, dest) with dest absent: the subtree is renamed
move(c, src, dest) ==
    rmtree(c, src) \cup
        {[rel |-> dest \o SubSeq(x.rel, Len(src) + 1, Len(x.rel)), src |-> x.src] :
            x \in Subtree(c, src)}

\* what a shutil.rmtree that raises can leave behind: part of the subtree
rmtreeInterrupted(c, pre) ==
    {rmtree(c, pre) \cup kept : kept \in (SUBSET Subtree(c, pre)) \ {{}}}

\* names of base_path.iterdir()
iterdir(c) == {x.rel[1] : x \in c}

\* "if item.name not in ['Terminal', 'ENROUTE']"
Kept == {"Terminal", "ENROUTE"}

\* cycle directories as steps 2 to 5 of run() can leave them
FinalizeFiles ==
    { <<"Data", "EAIP", "Terminal", "ZBAA", "index.json">>,
      <<"Data", "EAIP", "ENROUTE", "index.json">>,
      <<"Data", "JsonPath", "AD.JSON">>,
      <<"Terminal", "ZBAA", "old.pdf">>,
      <<"README.txt">>,
      <<"extra", "x.pdf">> }

FinalizeTrees == {{[rel |-> r, src |-> "good"] : r \in S} : S \in SUBSET FinalizeFiles}

\* the cycle directory of the current import
Cycle == fs.data[airac_period].files

SetCycle(c) == [fs EXCEPT !.data[airac_period] = [exists |-> TRUE, files |-> c]]

finalizeUnchanged == <<zip_path, airac_period, dir_name, index, root_folder,
                       extractErr, dataAtStart, nImports>>

\* run() line 186 and the entry into _cleanup_import_files
FinalizeBegin ==
    /\ pc = "finalize"
    /\ events' = Append(events, Progress(6, 0))
    /\ pc' = "mv_terminal"
    /\ UNCHANGED <<fs, ioFault>>
    /\ UNCHANGED finalizeUnchanged
    /\ UNCHANGED uiVars
    /\ UNCHANGED extVars

\* "if src.exists(): if dest.exists(): rmtree(dest); move(src, dest)": either
\* call can raise, and the except clause of line 263 ends the cleanup
Relocate(src, dest, next) ==
    IF ~PathExists(Cycle, src)
    THEN /\ pc' = next
         /\ UNCHANGED <<fs, ioFault>>
    ELSE \/ /\ fs' = SetCycle(move(rmtree(Cycle, dest), src, dest))
            /\ pc' = next
            /\ UNCHANGED ioFault
         \/ /\ PathExists(Cycle, dest)
            /\ \E c \in rmtreeInterrupted(Cycle, dest) : fs' = SetCycle(c)
            /\ ioFault' = TRUE
            /\ pc' = "load"
         \/ /\ fs' = SetCycle(rmtree(Cycle, dest))
            /\ ioFault' = TRUE
            /\ pc' = "load"

\* _cleanup_import_files lines 227-234
CleanupMoveTerminal ==
    /\ pc = "mv_terminal"
    /\ Relocate(<<"Data", dir_name, "Terminal">>, <<"Terminal">>, "mv_enroute")
    /\ UNCHANGED events
    /\ UNCHANGED finalizeUnchanged
    /\ UNCHANGED uiVars
    /\ UNCHANGED extVars

\* _cleanup_import_files lines 236-243
CleanupMoveEnroute ==
    /\ pc = "mv_enroute"
    /\ Relocate(<<"Data", dir_name, "ENROUTE">>, <<"ENROUTE">>, "rm_data")
    /\ UNCHANGED events
    /\ UNCHANGED finalizeUnchanged
    /\ UNCHANGED uiVars
    /\ UNCHANGED extVars

\* _cleanup_import_files lines 245-249
CleanupDeleteData ==
    /\ pc = "rm_data"
    /\ IF ~PathExists(Cycle, <<"Data">>)
       THEN /\ pc' = "rm_others"
            /\ UNCHANGED <<fs, ioFault>>
       ELSE \/ /\ fs' = SetCycle(rmtree(Cycle, <<"Data">>))
               /\ pc' = "rm_others"
               /\ UNCHANGED ioFault
            \/ /\ \E c \in rmtreeInterrupted(Cycle, <<"Data">>) : fs' = SetCycle(c)
               /\ ioFault' = TRUE
               /\ pc' = "load"
    /\ UNCHANGED events
    /\ UNCHANGED finalizeUnchanged
    /\ UNCHANGED uiVars
    /\ UNCHANGED extVars

\* _cleanup_import_files lines 251-259: the loop over base_path.iterdir();
\* when a removal raises, the entries in left are still there
CleanupDeleteOthers ==
    /\ pc = "rm_others"
    /\ LET others == iterdir(Cycle) \ Kept
       IN  \/ /\ fs' = SetCycle({x \in Cycle : x.rel[1] \in Kept})
              /\ pc' = "load"
              /\ UNCHANGED ioFault
           \/ \E left \in (SUBSET others) \ {{}} :
                /\ fs' = SetCycle({x \in Cycle : x.rel[1] \in Kept \cup left})
                /\ ioFault' = TRUE
                /\ pc' = "load"
    /\ UNCHANGED events
    /\ UNCHANGED finalizeUnchanged
    /\ UNCHANGED uiVars
    /\ UNCHANGED extVars

\* run() lines 189-200: _cleanup_import_files has returned (it raises
\* nothing), the airports are parsed and importFinished(True, ...) is emitted
LoadAndFinish ==
    /\ pc = "load"
    /\ events' = events \o << Progress(6, 50), Progress(6, 80), Progress(6, 100),
                              Finished(TRUE, "import_ok") >>
    /\ pc' = "done"
    /\ UNCHANGED <<fs, ioFault>>
    /\ UNCHANGED finalizeUnchanged
    /\ UNCHANGED uiVars
    /\ UNCHANGED extVars

\* the state of run() at line 184
InitFinalize ==
    /\ airac_period \in DefaultPeriods
    /\ dir_name \in VendorTagged
    /\ \E c \in FinalizeTrees :
            fs = [temp |-> NoTemp,
                  data |-> [p \in AllPeriods |->
                              IF p = airac_period
                              THEN [exists |-> TRUE, files |-> c] ELSE NoDir]]
    \* step 3 has set dir_name to a directory it detected, if there is one
    /\ eaip_dirs(fs, airac_period) # {} => dir_name \in eaip_dirs(fs, airac_period)
    /\ pc = "finalize"
    /\ zip_path = "good"
    /\ index = 0
    /\ root_folder = N_EAIP2025_11
    /\ events = << Progress(5, 100) >>
    /\ extractErr = [kind |-> "ok", atEntry |-> FALSE]
    /\ ioFault = FALSE
    /\ dataAtStart = EmptyFs.data
    /\ nImports = 1
    /\ InitUI
    /\ InitExt

NextFinalize ==
    \/ FinalizeBegin
    \/ CleanupMoveTerminal
    \/ CleanupMoveEnroute
    \/ CleanupDeleteData
    \/ CleanupDeleteOthers
    \/ LoadAndFinish

SpecFinalize == InitFinalize /\ [][NextFinalize]_vars

----------------------------------------------------------------------------
(* The read path of DataManager: loadSavedAirports, loadChartsForAirport   *)
(* and getChartByCode over EaipHandler, called on the UI thread while a    *)
(* worker may be running.  Environment assumption: no archive has a        *)
(* top-level folder named Terminal (data/temp_extract is then never taken  *)
(* for a cycle directory by the scan of loadSavedAirports).                *)

DigitOrder == <<"0", "1", "2", "3", "4", "5", "6", "7", "8", "9">>

Rank(ch) == CHOOSE i \in 1..Len(DigitOrder) : DigitOrder[i] = ch

\* a < b for Python strings of digits
RECURSIVE StrLess(_, _)
StrLess(a, b) ==
    IF a = <<>> THEN b # <<>>
    ELSE IF b = <<>> THEN FALSE
    ELSE IF Head(a) = Head(b) THEN StrLess(Tail(a), Tail(b))
    ELSE Rank(Head(a)) < Rank(Head(b))

\* sorted(airac_periods)
RECURSIVE sorted(_)
sorted(S) ==
    IF S = {} THEN <<>>
    ELSE LET least == CHOOSE x \in S : \A y \in S \ {x} : StrLess(x, y)
         IN  <<least>> \o sorted(S \ {least})

\* variant: the first element of the sorted list is taken
lastAsFirst(l) == l[1]

\* l[-1]
last(l) == l[Len(l)]

Icaos == {"ZBAA", "ZSSS"}

Codes == {"1A"}

\* category arguments of loadChartsForAirport ("" is no category); none of
\* them is a runway designator (^\d{2}[LRC]?$)
Categories == {"", "SID"}

IndexEntry(id, code, path, sort) ==
    [id |-> id, code |-> code, path |-> path, sort |-> sort]

\* json.load of an index.json: the entries stored in the file, which depend
\* on where the file comes from
IndexContent(src) ==
    CASE src = "indexed" ->
            { IndexEntry("1", "1A", <<"SID", "1A.pdf">>, "SID"),
              IndexEntry("2", "general", <<"0.pdf">>, "general") }
      [] src = "flattened" ->
            { IndexEntry("1", "general", <<"0.pdf">>, "general") }
      [] OTHER ->
            { IndexEntry("1", "general", <<"old.pdf">>, "general"),
              IndexEntry("2", "1A", <<"SID", "1A.pdf">>, "SID") }

\* the file at base_path / rel, as a set (empty when it does not exist)
FileAt(period, rel) == {x \in fs.data[period].files : x.rel = rel}

\* the entries of the index.json at base_path / rel
EntriesAt(period, rel) == UNION {IndexContent(x.src) : x \in FileAt(period, rel)}

\* the running import has moved data/period into place and has not
\* completed its cleanup
MovedNotFinalized(period) ==
    /\ period = airac_period
    /\ pc \in {"process", "rename", "finalize", "mv_terminal", "mv_enroute",
               "rm_data", "rm_others"}

Query(op, args, period, read, result, emitted) ==
    [op |-> op, args |-> args, period |-> period, read |-> read,
     result |-> result, emitted |-> emitted,
     unfinalized |-> read # {} /\ MovedNotFinalized(period)]

\* EaipHandler.terminal_path
terminal_path(h) == h.terminal_path.rel

\* the scan of loadSavedAirports: directories of data/ holding Terminal/
airac_periods ==
    {p \in AllPeriods :
        \E x \in Subtree(fs.data[p].files, <<"Terminal">>) : Len(x.rel) >= 2}

\* directories of data/<period>/Terminal
AirportDirs(period) ==
    {x.rel[2] : x \in {y \in Subtree(fs.data[period].files, <<"Terminal">>) : Len(y.rel) >= 3}}

\* DataManager.loadSavedAirports
loadSavedAirports ==
    /\ IF airac_periods = {}
       THEN /\ lastQuery' = Query("loadSavedAirports", <<>>, None, {}, {}, FALSE)
            /\ UNCHANGED <<dm_airac_period, eaip_handler>>
       ELSE LET latest_period == last(sorted(airac_periods))
                airports == AirportDirs(latest_period)
                indexes == {<<"Terminal", a, "index.json">> : a \in airports}
                              \cup {<<"ENROUTE", "index.json">>}
                read == {r \in indexes : airports # {} /\ FileAt(latest_period, r) # {}}
            IN  /\ dm_airac_period' = latest_period
                /\ eaip_handler' = EaipHandler(latest_period, dm_dir_name)
                /\ lastQuery' = Query("loadSavedAirports", <<>>, latest_period, read,
                                      airports, airports # {})
    /\ UNCHANGED <<dm_dir_name, cache>>
    /\ UNCHANGED <<pipeVars, uiVars, idxVars, renVars, perVars, laterVars>>

\* DataManager.loadChartsForAirport over EaipHandler.get_chart_list
loadChartsForAirport(airport_code, category) ==
    /\ LET h == eaip_handler
           index_path == terminal_path(h) \o <<airport_code, "index.json">>
           data == EntriesAt(h.airac_period, index_path)
           charts == IF category = "" THEN data ELSE {x \in data : x.sort = category}
       IN  lastQuery' = Query("loadChartsForAirport", <<airport_code, category>>,
                              h.airac_period,
                              {x.rel : x \in FileAt(h.airac_period, index_path)},
                              charts, FALSE)
    /\ UNCHANGED <<dm_airac_period, dm_dir_name, eaip_handler, cache>>
    /\ UNCHANGED <<pipeVars, uiVars, idxVars, renVars, perVars, laterVars>>

\* DataManager.getChartByCode over EaipHandler.get_chart_by_code; rendering
\* the PDF can fail, and a rendered chart is written to data/cache
getChartByCode(airport_code, chart_code) ==
    /\ LET h == eaip_handler
           airport_path == terminal_path(h) \o <<airport_code>>
           index_path == airport_path \o <<"index.json">>
           matching == {x \in EntriesAt(h.airac_period, index_path) : x.code = chart_code}
           pdfs == UNION {FileAt(h.airac_period, airport_path \o x.path) : x \in matching}
           read == {x.rel : x \in FileAt(h.airac_period, index_path) \cup pdfs}
       IN  \E rendered \in BOOLEAN :
             /\ cache' = IF pdfs # {} /\ rendered
                         THEN cache \cup {<<airport_code, chart_code>>} ELSE cache
             /\ lastQuery' = Query("getChartByCode", <<airport_code, chart_code>>,
                                   h.airac_period, read,
                                   IF pdfs # {} /\ rendered THEN {"image"} ELSE {"error"},
                                   FALSE)
    /\ UNCHANGED <<dm_airac_period, dm_dir_name, eaip_handler>>
    /\ UNCHANGED <<pipeVars, uiVars, idxVars, renVars, perVars, laterVars>>

\* variant: the fields of the worker are copied whatever the outcome
TakesWorkerFieldsAlways(success) == TRUE

\* "if success:" of _onImportFinished, the worker being the one stored
TakesWorkerFields(success) == success

\* DataManager._onImportFinished: on success the period and directory name
\* of the worker are copied, the EaipHandler is made anew and airportsLoaded
\* is emitted; dataImportCompleted is emitted in either case
ImportFinishedUpdate ==
    /\ pc = "done"
    /\ IF TakesWorkerFields(LastEvent.success)
       THEN /\ dm_airac_period' = airac_period
            /\ dm_dir_name' = dir_name
            /\ eaip_handler' = EaipHandler(airac_period, dir_name)
            /\ signals' = [signals EXCEPT !.airportsLoaded = @ + 1,
                                          !.dataImportCompleted = @ + 1]
       ELSE /\ UNCHANGED <<dm_airac_period, dm_dir_name, eaip_handler>>
            /\ signals' = [signals EXCEPT !.dataImportCompleted = @ + 1]
    /\ pc' = "idle"
    /\ UNCHANGED <<cache, lastQuery>>
    /\ UNCHANGED <<fs, zip_path, airac_period, dir_name, index, root_folder,
                   events, extractErr, ioFault, dataAtStart, nImports>>
    /\ UNCHANGED <<import_worker, thread, postedEvents, nextWorker, dm_source,
                   lastCall, crashed>>
    /\ UNCHANGED <<idxVars, renVars, perVars, laterVars>>

\* archives imported while the read path is in use
QueryArchives == {"indexed", "flattened", "undated"}

\* importDataFromZip: the worker gets the period DataManager holds (the
\* directory name it holds is "EAIP" as long as no import has succeeded)
StartImport(a) ==
    /\ nImports < MaxQueryImports
    /\ ImportWorkerInit(a, dm_airac_period)

ReadPath ==
    \/ loadSavedAirports
    \/ \E i \in Icaos, c \in Categories : loadChartsForAirport(i, c)
    \/ \E i \in Icaos, c \in Codes : getChartByCode(i, c)

NextQuery ==
    \/ \E a \in QueryArchives : StartImport(a)
    \/ RunBegin
    \/ ExtractEntry
    \/ ExtractFinish
    \/ DetectStructure
    \/ MoveToFinal
    \/ ProcessCharts
    \/ RenameCharts
    \/ ImportFinishedUpdate
    \/ ReadPath

SpecQuery == Init /\ [][NextQuery]_vars

----------------------------------------------------------------------------
(* Finalizing followed by _onImportFinished, with the read path in use:    *)
(* the import of a vendor tree that holds an index for ZBAA, next to        *)
(* another cycle that an earlier import may have committed.                *)

VendorIndex == [rel |-> <<"Data", "EAIP", "Terminal", "ZBAA", "index.json">>, src |-> "good"]

CommitTrees ==
    {t \in FinalizeTrees :
        /\ VendorIndex \in t
        /\ \A x \in t : x.rel[1] \in {"Data", "Terminal"}}

\* a cycle directory in the flattened layout
CommittedCycle ==
    [exists |-> TRUE,
     files |-> {[rel |-> <<"Terminal", "ZBAA", "index.json">>, src |-> "flattened"]}]

\* the state of run() at line 184; DataManager holds the period of the
\* other cycle when there is one (loadSavedAirports at startup), else its
\* default
InitCommit ==
    /\ airac_period \in DefaultPeriods
    /\ dir_name = "EAIP"
    /\ \E c \in CommitTrees, other \in DefaultPeriods, present \in BOOLEAN :
            /\ other # airac_period
            /\ fs = [temp |-> NoTemp,
                     data |-> [p \in AllPeriods |->
                                 IF p = airac_period
                                 THEN [exists |-> TRUE, files |-> c]
                                 ELSE IF p = other /\ present
                                 THEN CommittedCycle ELSE NoDir]]
            /\ dm_airac_period = IF present THEN other ELSE P_2505
    /\ dm_dir_name = "EAIP"
    /\ eaip_handler = EaipHandler(dm_airac_period, "EAIP")
    /\ cache = {}
    /\ lastQuery = [op |-> "none", args |-> <<>>, period |-> None, read |-> {},
                    result |-> {}, emitted |-> FALSE, unfinalized |-> FALSE]
    /\ InitIdx
    /\ InitRen
    /\ InitPer
    /\ InitLater
    /\ pc = "finalize"
    /\ zip_path = "good"
    /\ index = 0
    /\ root_folder = N_EAIP2025_11
    /\ events = << Progress(5, 100) >>
    /\ extractErr = [kind |-> "ok", atEntry |-> FALSE]
    /\ ioFault = FALSE
    /\ dataAtStart = EmptyFs.data
    /\ nImports = 1
    /\ InitUI

NextCommit ==
    \/ NextFinalize
    \/ ImportFinishedUpdate
    \/ ReadPath

SpecCommit == InitCommit /\ [][NextCommit]_vars

\* the greatest period among the cycle directories on disk
IsLatest(p) == p \in airac_periods /\ \A q \in airac_periods : ~StrLess(p, q)

CommittedCharts(period, icao, category) ==
    LET data == EntriesAt(period, <<"Terminal", icao, "index.json">>)
    IN  IF category = "" THEN data ELSE {x \in data : x.sort = category}

----------------------------------------------------------------------------
(* ChartProcessor.generate_index: one task per airport directory in a pool *)
(* of max_workers threads, then the index of ENROUTE.  A file name is a    *)
(* sequence of pieces, so that the chart code can be cut out of it.        *)

PDF_0 == <<"0", ".pdf">>
PDF_1A == <<"ZBAA-", "1A-", "SID", ".pdf">>
PDF_2B == <<"2B-", "SID", ".pdf">>
PDF_GMC == <<"ZBAA-", "GMC", ".pdf">>
PDF_ENR1 == <<"ENR1", ".pdf">>
PDF_ENR2 == <<"ENR2", ".pdf">>

SPECIAL_CHART_TYPES == <<"WAYPOINT LIST", "GMC", "APDC", "DATABASE CODING TABLE">>

\* f"{chart_type}-MERGED.pdf"
MergedName(chart_type) == <<chart_type, "-MERGED.pdf">>

\* a file of an airport directory with the pages PyMuPDF reads from it;
\* folder "" is the directory itself
File(folder, name, pages) == [folder |-> folder, name |-> name, pages |-> pages]

\* a chart PDF of an airport directory: one page, told apart by its name
Pdf(folder, name) == File(folder, name, <<name>>)

\* what stands for the pages of a file fitz.open raises on
Unreadable == << <<"unreadable">> >>

Airports == {"ZBAA", "ZGGG", "ZSSS"}

\* f"{airport_name}-"
AirportPrefix(airport_name) ==
    CASE airport_name = "ZBAA" -> "ZBAA-"
      [] airport_name = "ZGGG" -> "ZGGG-"
      [] OTHER -> "ZSSS-"

\* the airport directories the index is generated over; "OLD" is a
\* subfolder that is not named after a chart type
DirShapes ==
    { {},
      {Pdf("SID", PDF_1A)},
      {Pdf("OLD", PDF_1A)},
      {Pdf("", PDF_0), Pdf("SID", PDF_1A), Pdf("SID", PDF_2B), Pdf("GMC", PDF_GMC)} }

\* the directories of the runs with failures: one of them has a GMC folder
\* with a PDF that cannot be read
FaultShapes ==
    { {Pdf("SID", PDF_1A)},
      {Pdf("", PDF_0), Pdf("SID", PDF_1A), Pdf("SID", PDF_2B), Pdf("GMC", PDF_GMC)},
      {Pdf("SID", PDF_1A), Pdf("GMC", PDF_GMC), File("GMC", PDF_0, Unreadable)} }

\* the orders in which a directory can be listed: one fixed order of the
\* names, or its reverse
NameOrder ==
    <<PDF_0, PDF_1A, PDF_2B, PDF_ENR1, PDF_ENR2, PDF_GMC, MergedName("GMC"),
      <<"STAR", "-", "SID", ".pdf">> >>

FolderOrder == <<"GMC", "OLD", "SID">>

AirportOrder == <<"ZBAA", "ZGGG", "ZSSS">>

Reverse(l) == [i \in 1..Len(l) |-> l[Len(l) + 1 - i]]

\* list(path.glob(...)) / path.iterdir() restricted to the names of S
Enumerate(order, S, how) ==
    LET l == SelectSeq(order, LAMBDA x : x \in S)
    IN  IF how = "asc" THEN l ELSE Reverse(l)

\* str(chart_id)
RECURSIVE str(_)
str(n) ==
    IF n < 10 THEN <<DigitOrder[n + 1]>>
    ELSE str(n \div 10) \o <<DigitOrder[(n % 10) + 1]>>

\* name.split(sep)[0]
SplitFirst(name, sep) ==
    LET hits == {i \in 1..Len(name) : name[i] = sep}
    IN  IF hits = {} THEN name ELSE SubSeq(name, 1, MinOf(hits) - 1)

\* code.split(sep)[-1]
SplitLast(code, sep) ==
    LET hits == {i \in 1..Len(code) : code[i] = sep}
    IN  IF hits = {} THEN code
        ELSE SubSeq(code, (CHOOSE i \in hits : \A j \in hits : j <= i) + 1, Len(code))

\* the code of a chart in a subfolder (lines 334-336)
chart_code(name, folder, airport_name) ==
    LET code == SplitFirst(name, folder)
    IN  IF \E i \in 1..Len(code) : code[i] = AirportPrefix(airport_name)
        THEN SplitLast(code, AirportPrefix(airport_name))
        ELSE code

\* sorted(folder_path.glob("*.pdf")): the names in lexicographic order
SortedNames ==
    <<PDF_0, PDF_2B, PDF_ENR1, PDF_ENR2, MergedName("GMC"), <<"STAR", "-", "SID", ".pdf">>,
      PDF_1A, PDF_GMC>>

\* merged_doc.insert_pdf(doc) for the files in the order of their names
RECURSIVE InsertAll(_, _)
InsertAll(names, files) ==
    IF names = <<>> THEN <<>>
    ELSE (CHOOSE x \in files : x.name = Head(names)).pages \o InsertAll(Tail(names), files)

\* merge_pdfs: the folder's PDFs, in sorted order, are read into one
\* document that is saved as the merged PDF of the folder; nothing is
\* written without PyMuPDF, for a folder without PDFs, or when a file
\* cannot be read
merge_pdfs(dir, chart_type, fitzOn) ==
    LET files == {x \in dir : x.folder = chart_type}
        names == SelectSeq(SortedNames, LAMBDA n : \E x \in files : x.name = n)
    IN  IF ~fitzOn \/ files = {} \/ \E x \in files : x.pages = Unreadable
        THEN dir
        ELSE {x \in dir : ~(x.folder = chart_type /\ x.name = MergedName(chart_type))}
                \cup {File(chart_type, MergedName(chart_type), InsertAll(names, files))}

\* variant: the merged PDF takes the place of the PDFs it was made from
merge_special_charts_moving(dir, fitzOn) ==
    LET gmc == merge_pdfs(dir, "GMC", fitzOn)
    IN  IF gmc = dir THEN dir ELSE {x \in gmc : x.folder # "GMC" \/ x.name = MergedName("GMC")}

\* the loop of merge_special_charts from the k-th special type on
RECURSIVE merge_each(_, _, _)
merge_each(dir, k, fitzOn) ==
    IF k > Len(SPECIAL_CHART_TYPES) THEN dir
    ELSE merge_each(merge_pdfs(dir, SPECIAL_CHART_TYPES[k], fitzOn), k + 1, fitzOn)

\* merge_special_charts: merge_pdfs for each special folder that exists
merge_special_charts(dir, fitzOn) == merge_each(dir, 1, fitzOn)

Item(code, name, path, sort) == [code |-> code, name |-> name, path |-> path, sort |-> sort]

\* the loop over root_pdfs (lines 309-321), ids apart
RootItems(dir, how) ==
    LET names == Enumerate(NameOrder, {x.name : x \in {y \in dir : y.folder = ""}}, how)
    IN  [i \in 1..Len(names) |-> Item(<<"general">>, names[i], <<names[i]>>, "general")]

\* the inner loop over folder_pdfs (lines 328-345), ids apart
OneFolderItems(dir, folder, airport_name, how) ==
    LET names == Enumerate(NameOrder, {x.name : x \in {y \in dir : y.folder = folder}}, how)
    IN  [i \in 1..Len(names) |->
            Item(chart_code(names[i], folder, airport_name), names[i],
                 <<folder, names[i]>>, folder)]

RECURSIVE FoldersItems(_, _, _, _)
FoldersItems(dir, folders, airport_name, how) ==
    IF folders = <<>> THEN <<>>
    ELSE OneFolderItems(dir, Head(folders), airport_name, how)
            \o FoldersItems(dir, Tail(folders), airport_name, how)

\* the loop over folders (lines 324-345), ids apart
FolderItems(dir, airport_name, how) ==
    FoldersItems(dir, Enumerate(FolderOrder, {x.folder : x \in dir} \ {""}, how),
                 airport_name, how)

\* variant: chart_id is not advanced after an entry
NumberedStuck(items, chart_id) ==
    [i \in 1..Len(items) |->
        [id |-> str(chart_id), code |-> items[i].code, name |-> items[i].name,
         path |-> items[i].path, sort |-> items[i].sort]]

\* "id": str(chart_id) with chart_id += 1 after each entry
Numbered(items, chart_id) ==
    [i \in 1..Len(items) |->
        [id |-> str(chart_id + i - 1), code |-> items[i].code, name |-> items[i].name,
         path |-> items[i].path, sort |-> items[i].sort]]

\* _generate_airport_index run alone on a directory: the entries it writes
AirportIndex(dir, airport_name, fitzOn, how) ==
    LET merged == merge_special_charts(dir, fitzOn)
        root == Numbered(RootItems(merged, how), 1)
    IN  root \o Numbered(FolderItems(merged, airport_name, how), Len(root) + 1)

\* the ENROUTE part of generate_index (lines 386-401)
EnrouteIndex(pdfs, how) ==
    LET names == Enumerate(NameOrder, pdfs, how)
    IN  Numbered([i \in 1..Len(names) |->
                    Item(<<"enroute">>, names[i], <<names[i]>>, "enroute")], 1)

NoIndex == [exists |-> FALSE, entries |-> <<>>]

IndexFile(entries) == [exists |-> TRUE, entries |-> entries]

\* variant: every task is bound to the last directory of the list
TaskArgumentLateBound(airports, i) == airports[Len(airports)]

\* executor.submit(self._generate_airport_index, airport): the task of the
\* i-th directory gets that directory
TaskArgument(airports, i) == airports[i]

Running(i) == futures[i].state \in {"started", "merged", "rooted", "foldered"}

idxUnchanged == <<pipeVars, uiVars, dmVars, renVars, perVars, laterVars>>

SetTask(i, state, entries, chart_id) ==
    [futures EXCEPT ![i] = [airport |-> @.airport, state |-> state,
                            entries |-> entries, chart_id |-> chart_id,
                            failed |-> @.failed]]

\* generate_index lines 364-373: the directories are listed and one task
\* per directory is submitted
SubmitTasks ==
    /\ gen_pc = "call"
    /\ LET airports == Enumerate(AirportOrder, DOMAIN terminal_tree, listing)
       IN  futures' = [i \in 1..Len(airports) |->
                          [airport |-> TaskArgument(airports, i), state |-> "queued",
                           entries |-> <<>>, chart_id |-> 1, failed |-> FALSE]]
    /\ total_charts' = 0
    /\ gen_pc' = "pool"
    /\ UNCHANGED <<terminal_tree, enroute_pdfs, index_json, max_workers, fitz,
                   listing, treeAtStart>>
    /\ UNCHANGED idxUnchanged

\* a thread of the pool takes the oldest queued task
TaskStart(i) ==
    /\ gen_pc = "pool"
    /\ futures[i].state = "queued"
    /\ \A j \in 1..(i - 1) : futures[j].state # "queued"
    /\ Cardinality({j \in 1..Len(futures) : Running(j)}) < max_workers
    /\ futures' = SetTask(i, "started", <<>>, 1)
    /\ UNCHANGED <<terminal_tree, enroute_pdfs, index_json, total_charts,
                   max_workers, fitz, listing, treeAtStart, gen_pc>>
    /\ UNCHANGED idxUnchanged

\* _generate_airport_index line 303
TaskMerge(i) ==
    /\ futures[i].state = "started"
    /\ terminal_tree' = [terminal_tree EXCEPT ![futures[i].airport] =
                            merge_special_charts(@, fitz)]
    /\ futures' = SetTask(i, "merged", <<>>, 1)
    /\ UNCHANGED <<enroute_pdfs, index_json, total_charts, max_workers, fitz,
                   listing, treeAtStart, gen_pc>>
    /\ UNCHANGED idxUnchanged

\* _generate_airport_index lines 305-321
TaskRootPdfs(i) ==
    /\ futures[i].state = "merged"
    /\ LET t == futures[i]
           items == RootItems(terminal_tree[t.airport], listing)
       IN  futures' = SetTask(i, "rooted", Numbered(items, t.chart_id),
                              t.chart_id + Len(items))
    /\ UNCHANGED <<terminal_tree, enroute_pdfs, index_json, total_charts,
                   max_workers, fitz, listing, treeAtStart, gen_pc>>
    /\ UNCHANGED idxUnchanged

\* _generate_airport_index lines 323-345
TaskFolderPdfs(i) ==
    /\ futures[i].state = "rooted"
    /\ LET t == futures[i]
           items == FolderItems(terminal_tree[t.airport], t.airport, listing)
       IN  futures' = SetTask(i, "foldered", t.entries \o Numbered(items, t.chart_id),
                              t.chart_id + Len(items))
    /\ UNCHANGED <<terminal_tree, enroute_pdfs, index_json, total_charts,
                   max_workers, fitz, listing, treeAtStart, gen_pc>>
    /\ UNCHANGED idxUnchanged

\* _generate_airport_index lines 347-352: index.json is written and the
\* task returns (airport_name, len(index_entries))
TaskWriteIndex(i) ==
    /\ futures[i].state = "foldered"
    /\ index_json' = [index_json EXCEPT ![futures[i].airport] = IndexFile(futures[i].entries)]
    /\ futures' = SetTask(i, "returned", futures[i].entries, futures[i].chart_id)
    /\ UNCHANGED <<terminal_tree, enroute_pdfs, total_charts, max_workers, fitz,
                   listing, treeAtStart, gen_pc>>
    /\ UNCHANGED idxUnchanged

\* variant: a task that failed returns the number of entries it had built
chart_count_partial(t) == Len(t.entries)

\* the second component of what _generate_airport_index returns:
\* len(index_entries), and 0 from the except clause
chart_count(t) == IF t.failed THEN 0 ELSE Len(t.entries)

\* an exception inside the try of _generate_airport_index (a directory that
\* cannot be listed, an index.json that cannot be opened for writing): the
\* except clause logs it and the task returns (airport_name, 0)
TaskFails(i) ==
    /\ futures[i].state \in {"started", "merged", "rooted", "foldered"}
    /\ futures' = [futures EXCEPT ![i].state = "returned", ![i].failed = TRUE]
    /\ UNCHANGED <<terminal_tree, enroute_pdfs, index_json, total_charts,
                   max_workers, fitz, listing, treeAtStart, gen_pc>>
    /\ UNCHANGED idxUnchanged

\* one turn of the loop over as_completed(futures)
CollectResult(i) ==
    /\ gen_pc = "pool"
    /\ futures[i].state = "returned"
    /\ total_charts' = total_charts + chart_count(futures[i])
    /\ futures' = SetTask(i, "collected", futures[i].entries, futures[i].chart_id)
    /\ UNCHANGED <<terminal_tree, enroute_pdfs, index_json, max_workers, fitz,
                   listing, treeAtStart, gen_pc>>
    /\ UNCHANGED idxUnchanged

\* generate_index lines 383-408, once the pool is done
GenerateEnrouteIndex ==
    /\ gen_pc = "pool"
    /\ \A i \in 1..Len(futures) : futures[i].state = "collected"
    /\ index_json' = [index_json EXCEPT !["ENROUTE"] =
                          IndexFile(EnrouteIndex(enroute_pdfs, listing))]
    /\ gen_pc' = "done"
    /\ UNCHANGED <<terminal_tree, enroute_pdfs, futures, total_charts, max_workers,
                   fitz, listing, treeAtStart>>
    /\ UNCHANGED idxUnchanged

\* generate_index is called on a Terminal directory with any of the airport
\* directories, in any of the shapes
IndexInputs(shapes) ==
    /\ \E present \in SUBSET Airports : terminal_tree \in [present -> shapes]
    /\ enroute_pdfs \in {{}, {PDF_ENR1, PDF_ENR2}}
    /\ index_json = [d \in DOMAIN terminal_tree \cup {"ENROUTE"} |-> NoIndex]
    /\ futures = <<>>
    /\ total_charts = 0
    /\ max_workers \in 1..MaxWorkers
    /\ fitz \in BOOLEAN
    /\ listing \in {"asc", "desc"}
    /\ treeAtStart = terminal_tree
    /\ gen_pc = "call"
    /\ InitPipe
    /\ InitUI
    /\ InitDM
    /\ InitRen
    /\ InitPer
    /\ InitLater

InitIndex == IndexInputs(DirShapes)

NextIndex ==
    \/ SubmitTasks
    \/ \E i \in 1..Len(futures) : TaskStart(i)
    \/ \E i \in 1..Len(futures) : TaskMerge(i)
    \/ \E i \in 1..Len(futures) : TaskRootPdfs(i)
    \/ \E i \in 1..Len(futures) : TaskFolderPdfs(i)
    \/ \E i \in 1..Len(futures) : TaskWriteIndex(i)
    \/ \E i \in 1..Len(futures) : CollectResult(i)
    \/ GenerateEnrouteIndex

SpecIndex == InitIndex /\ [][NextIndex]_vars

\* generate_index when a task can fail
NextIndexFaults ==
    \/ NextIndex
    \/ \E i \in 1..Len(futures) : TaskFails(i)

\* the directories, one with an unreadable PDF, listed in the one order
InitIndexFaults == IndexInputs(FaultShapes) /\ listing = "asc"

SpecIndexFaults == InitIndexFaults /\ [][NextIndexFaults]_vars

RECURSIVE SumOver(_, _)
SumOver(S, f) ==
    IF S = {} THEN 0
    ELSE LET x == CHOOSE y \in S : TRUE IN f[x] + SumOver(S \ {x}, f)

\* what indexing the directories one at a time writes in directory a
SequentialIndex(a) == AirportIndex(treeAtStart[a], a, fitz, listing)

\* the directory a has been written to
Touched(a) == terminal_tree[a] # treeAtStart[a] \/ index_json[a].exists

\* C17: when generate_index is done, every airport directory holds the
\* index.json that indexing it alone would have written, and total_charts is
\* the sum of the lengths of these indexes; at every moment a directory has
\* been written to only by a task that was given this directory.
C17_ConcurrentAsSequential ==
    /\ gen_pc = "done" =>
          /\ \A a \in DOMAIN treeAtStart : index_json[a] = IndexFile(SequentialIndex(a))
          /\ total_charts = SumOver(DOMAIN treeAtStart,
                                    [a \in DOMAIN treeAtStart |-> Len(SequentialIndex(a))])
    /\ \A a \in DOMAIN treeAtStart :
          Touched(a) =>
              /\ \E i \in 1..Len(futures) :
                    futures[i].airport = a /\ futures[i].state \notin {"queued", "started"}
              /\ terminal_tree[a] = merge_special_charts(treeAtStart[a], fitz)

\* three directories have been indexed by a pool of two threads
C17_Witness ==
    /\ gen_pc = "done"
    /\ Len(futures) = 3
    /\ max_workers = 2
    /\ total_charts > Len(futures)

\* the ids of an index are "1", ..., "N" in the order of the entries
DenseIds(entries) ==
    /\ \A k \in 1..Len(entries) : entries[k].id = str(k)
    /\ \A k \in 1..Len(entries) : \A m \in 1..Len(entries) :
            entries[k].id = entries[m].id => k = m

\* the entries of the directory itself precede those of its subfolders
RootFirst(entries) ==
    \A k \in 1..Len(entries) : \A m \in 1..Len(entries) :
        (Len(entries[k].path) = 1 /\ Len(entries[m].path) > 1) => k < m

\* C18: every index.json that generate_index has written, for an airport
\* directory or for ENROUTE, has the ids "1", ..., "N" without repetition,
\* in the order of its entries, the root-level PDFs first.
C18_IdsDense ==
    \A d \in DOMAIN index_json :
        index_json[d].exists =>
            /\ DenseIds(index_json[d].entries)
            /\ RootFirst(index_json[d].entries)

\* an airport index with root-level and subfolder entries, and an ENROUTE
\* index with two entries, have been written
C18_Witness ==
    /\ gen_pc = "done"
    /\ Len(index_json["ENROUTE"].entries) = 2
    /\ \E a \in DOMAIN treeAtStart :
          /\ Len(index_json[a].entries) >= 4
          /\ \E k \in 1..Len(index_json[a].entries) : Len(index_json[a].entries[k].path) = 1

\* ---------------------------------------------------------------------------
\* ChartProcessor.rename_chart_files: the manifest-driven renaming, run twice
\* ---------------------------------------------------------------------------

\* most records an AD.JSON carries
MaxRecords == 2

\* a path is a sequence of segments, a segment a sequence of text pieces
Seg(s) == <<s>>

\* ChartProcessor.data_path, as the parts of the path
RenDataPath == <<Seg("data"), Seg("2511")>>

\* ChartProcessor.terminal_path and enroute_path, below data_path (dir_name "EAIP")
RenTerminalPath == <<Seg("Data"), Seg("EAIP"), Seg("Terminal")>>
RenEnroutePath == <<Seg("Data"), Seg("EAIP"), Seg("ENROUTE")>>

\* the chart files of the vendor tree
SRC_A == RenTerminalPath \o <<Seg("ZBAA"), <<"a", ".pdf">> >>
SRC_X == RenTerminalPath \o <<Seg("ZBAA"), <<"X", ".pdf">> >>
SRC_G == <<Seg("Data"), Seg("EAIP"), Seg("GeneralDoc"), <<"g", ".pdf">> >>
SRC_E == RenEnroutePath \o <<<<"e", ".pdf">> >>
SRC_T == <<Seg("Data"), Seg("EAIP"), <<"Terminal", "_old">>, Seg("ZBAA"), <<"t", ".pdf">> >>
VendorFiles == {SRC_A, SRC_X, SRC_G, SRC_E, SRC_T}

\* display names of the manifests
ChartNames == { <<"X">>, <<"Y", ":", "1">> }

\* a manifest record; pdfPath is "" or a path written with leading slashes
NoPdfPath == [slashes |-> 0, parts |-> <<>>]
PdfPaths(S) == {[slashes |-> n, parts |-> f] : n \in {1}, f \in S}
AdRecords ==
    [pdfPath : PdfPaths(VendorFiles), name : ChartNames]
        \cup [pdfPath : {NoPdfPath}, name : {<<"X">>}]
EnrRecords == [pdfPath : PdfPaths({SRC_E, SRC_X}), name : ChartNames]

\* a manifest file that does not exist, and the manifests of at most n records over R
NoManifest == [exists |-> FALSE, records |-> <<>>]
Manifests(R, n) ==
    {NoManifest} \cup [exists : {TRUE}, records : UNION {[1..k -> R] : k \in 0..n}]

\* str.lstrip("/") of a pdfPath
lstrip(p) == p.parts

\* the text contains the word
Contains(segment, word) == \E i \in 1..Len(segment) : segment[i] = word

\* ChartProcessor.get_icao_from_path: the first part that decides
RECURSIVE icao_from(_, _)
icao_from(parts, i) ==
    IF i > Len(parts) THEN <<>>
    ELSE IF Contains(parts[i], "GeneralDoc") THEN Seg("GeneralDoc")
    ELSE IF Contains(parts[i], "Terminal") /\ i + 1 <= Len(parts) THEN parts[i + 1]
    ELSE IF Contains(parts[i], "ENROUTE") THEN Seg("ENROUTE")
    ELSE icao_from(parts, i + 1)

get_icao_from_path(path) == icao_from(path, 1)

\* chart["name"] with ":", "/" and "\" replaced by "-", and ".pdf" appended
new_name(name) ==
    [i \in 1..Len(name) |-> IF name[i] \in {":", "/", "\\"} THEN "-" ELSE name[i]]
        \o <<".pdf">>

\* old_path of a record, below data_path
old_path(chart) == lstrip(chart.pdfPath)

\* the airport pass skips records without pdfPath, without ICAO, and en-route ones
AirportSkips(chart) ==
    \/ chart.pdfPath = NoPdfPath
    \/ get_icao_from_path(RenDataPath \o old_path(chart)) \in {<<>>, Seg("ENROUTE")}

\* new_path of a record in the airport pass and in the en-route pass
airport_new_path(chart) ==
    RenTerminalPath
        \o <<get_icao_from_path(RenDataPath \o old_path(chart)), new_name(chart.name)>>
enroute_new_path(chart) == RenEnroutePath \o <<new_name(chart.name)>>

\* Path.exists on the tree
RenExists(tree, path) == \E f \in tree : f.path = path

\* Path.rename raises OSError when the file may not be renamed, or when the
\* destination exists and the platform does not replace
RenameRaises(tree, old, new) ==
    \/ old \in denied
    \/ ~overwrites /\ old # new /\ RenExists(tree, new)

\* variant: an OSError ends the loop over the records
NextRecordAbort(pos, raised, n) == IF raised THEN n + 1 ELSE pos + 1

\* the except clause is inside the loop: the next record follows in every case
NextRecord(pos, raised, n) == pos + 1

\* Path.rename: the file leaves old and replaces what was at new
renameKeepingSource(tree, old, new) ==
    {f \in tree : f.path # new}
        \cup {[path |-> new, id |-> f.id] : f \in {g \in tree : g.path = old}}
rename(tree, old, new) ==
    {f \in tree : f.path \notin {old, new}}
        \cup {[path |-> new, id |-> f.id] : f \in {g \in tree : g.path = old}}

\* one record of a pass: rename when old_path exists, count when it did not raise
RenameRecord(old, new) ==
    IF RenExists(ren_tree, old) /\ ~RenameRaises(ren_tree, old, new)
    THEN /\ ren_tree' = rename(ren_tree, old, new)
         /\ renamed_count' = renamed_count + 1
    ELSE UNCHANGED <<ren_tree, renamed_count>>

renUnchanged == <<pipeVars, uiVars, dmVars, idxVars, perVars, laterVars>>

\* _rename_airport_charts, one record of AD.JSON
AirportRecord ==
    /\ ren_pc = "ad"
    /\ ad_json.exists
    /\ ren_pos <= Len(ad_json.records)
    /\ IF AirportSkips(ad_json.records[ren_pos])
       THEN UNCHANGED <<ren_tree, renamed_count>>
       ELSE RenameRecord(old_path(ad_json.records[ren_pos]),
                         airport_new_path(ad_json.records[ren_pos]))
    /\ ren_pos' = NextRecord(ren_pos,
                             /\ ~AirportSkips(ad_json.records[ren_pos])
                             /\ RenExists(ren_tree, old_path(ad_json.records[ren_pos]))
                             /\ RenameRaises(ren_tree, old_path(ad_json.records[ren_pos]),
                                             airport_new_path(ad_json.records[ren_pos])),
                             Len(ad_json.records))
    /\ UNCHANGED <<ad_json, enr_json, overwrites, denied, ren_pc, ren_run, firstRun>>
    /\ UNCHANGED renUnchanged

\* _rename_airport_charts returns: no AD.JSON, or every record handled
AirportPassEnd ==
    /\ ren_pc = "ad"
    /\ ~ad_json.exists \/ ren_pos > Len(ad_json.records)
    /\ ren_pc' = "enr"
    /\ ren_pos' = 1
    /\ UNCHANGED <<ren_tree, ad_json, enr_json, overwrites, denied, ren_run, renamed_count, firstRun>>
    /\ UNCHANGED renUnchanged

\* _rename_enroute_charts, one record of ENR.JSON
EnrouteRecord ==
    /\ ren_pc = "enr"
    /\ enr_json.exists
    /\ ren_pos <= Len(enr_json.records)
    /\ IF enr_json.records[ren_pos].pdfPath = NoPdfPath
       THEN UNCHANGED <<ren_tree, renamed_count>>
       ELSE RenameRecord(old_path(enr_json.records[ren_pos]),
                         enroute_new_path(enr_json.records[ren_pos]))
    /\ ren_pos' = NextRecord(ren_pos,
                             /\ enr_json.records[ren_pos].pdfPath # NoPdfPath
                             /\ RenExists(ren_tree, old_path(enr_json.records[ren_pos]))
                             /\ RenameRaises(ren_tree, old_path(enr_json.records[ren_pos]),
                                             enroute_new_path(enr_json.records[ren_pos])),
                             Len(enr_json.records))
    /\ UNCHANGED <<ad_json, enr_json, overwrites, denied, ren_pc, ren_run, firstRun>>
    /\ UNCHANGED renUnchanged

\* _rename_enroute_charts returns, and with it rename_chart_files
EnroutePassEnd ==
    /\ ren_pc = "enr"
    /\ ~enr_json.exists \/ ren_pos > Len(enr_json.records)
    /\ ren_pc' = "ran"
    /\ UNCHANGED <<ren_tree, ad_json, enr_json, overwrites, denied, ren_pos, ren_run, renamed_count,
                   firstRun>>
    /\ UNCHANGED renUnchanged

\* rename_chart_files is called again with the same manifests on the tree it left
RenameAgain ==
    /\ ren_pc = "ran"
    /\ ren_run = 1
    /\ firstRun' = [tree |-> ren_tree, renamed_count |-> renamed_count]
    /\ ren_run' = 2
    /\ renamed_count' = 0
    /\ ren_pc' = "ad"
    /\ ren_pos' = 1
    /\ UNCHANGED <<ren_tree, ad_json, enr_json, overwrites, denied>>
    /\ UNCHANGED renUnchanged

\* rename_chart_files is entered on a vendor tree with its manifests
InitRename ==
    /\ InitPipe
    /\ InitUI
    /\ InitDM
    /\ InitIdx
    /\ InitPer
    /\ InitLater
    /\ \E S \in {VendorFiles, VendorFiles \ {SRC_A}, VendorFiles \ {SRC_X}} :
          ren_tree = {[path |-> f, id |-> f] : f \in S}
    /\ denied \in {{}, {SRC_A}}
    /\ ad_json \in Manifests(AdRecords, MaxRecords)
    /\ enr_json \in Manifests(EnrRecords, 1)
    /\ overwrites \in BOOLEAN
    /\ ren_pc = "ad"
    /\ ren_pos = 1
    /\ ren_run = 1
    /\ renamed_count = 0
    /\ firstRun = [tree |-> {}, renamed_count |-> 0]

NextRename ==
    \/ AirportRecord
    \/ AirportPassEnd
    \/ EnrouteRecord
    \/ EnroutePassEnd
    \/ RenameAgain

SpecRename == InitRename /\ [][NextRename]_vars

\* the records of a manifest
RecordsOf(manifest) == {manifest.records[i] : i \in 1..Len(manifest.records)}

\* the records the two passes act on, their source and their destination paths
ActingAd == {c \in RecordsOf(ad_json) : ~AirportSkips(c)}
ActingEnr == {c \in RecordsOf(enr_json) : c.pdfPath # NoPdfPath}
SourcePaths == {old_path(c) : c \in ActingAd \cup ActingEnr}
DestinationPaths ==
    {airport_new_path(c) : c \in ActingAd} \cup {enroute_new_path(c) : c \in ActingEnr}

SecondRunOver == ren_pc = "ran" /\ ren_run = 2

MaxNameLen == 7

\* characters of the folder names: a letter, two digits, the separator
NameAlphabet == {"E", "0", "2", "-"}

\* the folder names _extract_airac_period is called on
FolderNames ==
    UNION {[1..k -> NameAlphabet] : k \in 0..MaxNameLen}
        \cup {N_EAIP2025_11, N_EAIP_2024_3, N_DATA2508}

\* a worker holds a period and the name of the root folder it found
InitPeriod ==
    /\ InitUI
    /\ InitDM
    /\ InitIdx
    /\ InitRen
    /\ InitLater
    /\ fs = EmptyFs
    /\ pc = "detect"
    /\ zip_path = "missing"
    /\ airac_period \in DefaultPeriods
    /\ dir_name = "EAIP"
    /\ index = 0
    /\ root_folder \in FolderNames
    /\ events = <<>>
    /\ extractErr = "none"
    /\ ioFault = FALSE
    /\ dataAtStart = fs.data
    /\ nImports = 0
    /\ resolved = <<>>

\* detected_period = self._extract_airac_period(root_folder.name), and the
\* assignment of run() that follows it; the call is made a second time
ResolvePeriod ==
    /\ pc = "detect"
    /\ Len(resolved) < 2
    /\ LET detected_period == extract_airac_period(root_folder)
       IN  /\ resolved' = Append(resolved, detected_period)
           /\ airac_period' = IF detected_period # None
                              THEN detected_period ELSE airac_period
    /\ UNCHANGED <<fs, pc, zip_path, dir_name, index, root_folder, events, extractErr,
                   ioFault, dataAtStart, nImports>>
    /\ UNCHANGED <<uiVars, dmVars, idxVars, renVars, laterVars>>

NextPeriod == ResolvePeriod

SpecPeriod == InitPeriod /\ [][NextPeriod]_vars

\* the number a string of digits writes
DigitValue(c) ==
    CASE c = "0" -> 0 [] c = "1" -> 1 [] c = "2" -> 2 [] c = "3" -> 3 [] c = "4" -> 4
      [] c = "5" -> 5 [] c = "6" -> 6 [] c = "7" -> 7 [] c = "8" -> 8 [] c = "9" -> 9

RECURSIVE NumberOf(_)
NumberOf(s) ==
    IF s = <<>> THEN 0 ELSE 10 * NumberOf(SubSeq(s, 1, Len(s) - 1)) + DigitValue(s[Len(s)])

IsDigit(s, k) == k \in 1..Len(s) /\ s[k] \in Digits

\* a YYYY-M or YYYY-MM pattern starts at position i, and none starts before
PatternAt(s, i) ==
    /\ \A k \in i..(i + 3) : IsDigit(s, k)
    /\ i + 4 <= Len(s)
    /\ s[i + 4] = "-"
    /\ IsDigit(s, i + 5)
FirstPatternAt(s, i) == PatternAt(s, i) /\ \A j \in 1..(i - 1) : ~PatternAt(s, j)

\* the month of the pattern at i: two digits when two follow the separator
MonthAt(s, i) == IF IsDigit(s, i + 6) THEN <<s[i + 5], s[i + 6]>> ELSE <<s[i + 5]>>

\* C20: on a name with a YYYY-M or YYYY-MM pattern the result is the last two
\* digits of the year and the month written in two digits (the two examples of
\* the specification included), every result other than none is four digits,
\* and two calls on the same name return the same whatever period the worker holds
C20_ResolvePeriod ==
    \A n \in 1..Len(resolved) :
        /\ \A i \in 1..Len(root_folder) :
              FirstPatternAt(root_folder, i)
                  => /\ Len(resolved[n]) = 4
                     /\ SubSeq(resolved[n], 1, 2) = SubSeq(root_folder, i + 2, i + 3)
                     /\ \A k \in 3..4 : resolved[n][k] \in Digits
                     /\ NumberOf(SubSeq(resolved[n], 3, 4)) = NumberOf(MonthAt(root_folder, i))
        /\ root_folder = N_EAIP2025_11 => resolved[n] = <<"2", "5", "1", "1">>
        /\ root_folder = N_EAIP_2024_3 => resolved[n] = <<"2", "4", "0", "3">>
        /\ resolved[n] # None
              => Len(resolved[n]) = 4 /\ \A k \in 1..4 : resolved[n][k] \in Digits
        /\ resolved[n] = resolved[1]

\* a name with a one-digit month after a prefix was resolved twice, the second
\* time by a worker whose period the first call had replaced
C20_Witness ==
    /\ Len(resolved) = 2
    /\ \E i \in 2..Len(root_folder) :
          /\ FirstPatternAt(root_folder, i)
          /\ Len(MonthAt(root_folder, i)) = 1
          /\ SubSeq(root_folder, i, i + 1) # SubSeq(root_folder, i + 2, i + 3)
    /\ resolved[2] = <<"0", "2", "0", "2">>
    /\ airac_period = resolved[2]

\* a run of exactly four digits with no digit before or after it starts at i
StandaloneRunAt(s, i) ==
    /\ \A k \in i..(i + 3) : IsDigit(s, k)
    /\ ~IsDigit(s, i - 1)
    /\ ~IsDigit(s, i + 4)

NoPattern(s) == \A i \in 1..Len(s) : ~PatternAt(s, i)

\* C21: on a name without YYYY-M pattern a period is returned only if the name
\* holds a standalone run of four digits, and it is that run; a name without
\* such a run gives none ("DATA2508" gives "2508")
C21_FallbackStandaloneRun ==
    \A n \in 1..Len(resolved) :
        NoPattern(root_folder) =>
            /\ resolved[n] # None =>
                  \E i \in 1..Len(root_folder) :
                      /\ StandaloneRunAt(root_folder, i)
                      /\ resolved[n] = SubSeq(root_folder, i, i + 3)
            /\ root_folder = N_DATA2508 => resolved[n] = <<"2", "5", "0", "8">>

\* ---------------------------------------------------------------------------
\* ZipExtractor.extract on its own, and the except clauses of run() around it
\* ---------------------------------------------------------------------------

\* most entries of an archive, all sizes up to it being drawn
MaxEntries == 103

\* sizes at which total_files // 100 is 2
LargeTotals == {200, 250}

\* names of archive members; a message of the operating system names the file
MemberNames == { <<"a", ".pdf">>, <<"No space left on device", ".pdf">> }

\* what can go wrong at an entry: the errors the code tells apart
EntryFailures == {"ENOSPC", "EACCES", "BadCRC", "RuntimeError"}

\* str(e) of the exception raised at a member, as a sequence of pieces; the
\* Chinese literals of the source are written in English, one piece each
ErrorText(cause, member) ==
    CASE cause = "ENOSPC" -> <<"[Errno 28]", "No space left on device">> \o member
      [] cause = "EACCES" -> <<"[Errno 13]", "Permission denied">> \o member
      [] cause = "BadCRC" -> <<"Bad CRC-32 for file">> \o member
      [] cause = "RuntimeError" -> <<"password required for extraction">> \o member

Errno(cause) == CASE cause = "ENOSPC" -> 28 [] cause = "EACCES" -> 13 [] OTHER -> 0

\* the class of the exception, as the except clauses of extract() see it
RaisedClass(cause) ==
    CASE cause \in {"ENOSPC", "EACCES"} -> "OSError"
      [] cause \in {"BadCRC", "NotAZip"} -> "BadZipFile"
      [] OTHER -> "Exception"

\* phrase in text
InText(phrase, text) == \E k \in 1..Len(text) : text[k] = phrase

\* the except clauses of extract(): the exception that leaves it
Reraised(cause, text) ==
    CASE RaisedClass(cause) = "BadZipFile" ->
            [type |-> "BadZipFile", text |-> <<"invalid ZIP file">> \o text]
      [] RaisedClass(cause) = "OSError" ->
            IF InText("No space left on device", text) \/ Errno(cause) = 28
            THEN [type |-> "OSError", text |-> <<"disk space insufficient", ", cannot finish extraction">>]
            ELSE [type |-> "OSError", text |-> <<"extraction failed">> \o text]
      [] OTHER -> [type |-> "Exception", text |-> <<"extraction failed">> \o text]

\* shutil.rmtree(extract_path) of the except clauses; BadZipFile has none
ExtractCleanup(cause, path) ==
    IF RaisedClass(cause) = "BadZipFile"
    THEN path
    ELSE [exists |-> FALSE, files |-> 0, stale |-> 0]

\* extract_path.mkdir(parents=True, exist_ok=True)
Mkdir(path) == [path EXCEPT !.exists = TRUE]

\* the throttle of the progress callback
Reports(i, total_files) == i % Max(1, total_files \div 100) = 0

\* the except clauses of run() around extract(): the message of importFinished
UserMessage(e) ==
    CASE e.type = "FileNotFoundError" -> <<"ZIP file not found, check the path">>
      [] e.type = "OSError" ->
            IF InText("disk space insufficient", e.text) \/ InText("No space left on device", e.text)
            THEN <<"X ", "disk space insufficient", ", cannot finish the import", "free disk space and retry">>
            ELSE <<"X extraction failed: ">> \o e.text \o <<"incomplete files were removed">>
      [] OTHER -> <<"X extraction failed: ">> \o e.text \o <<"incomplete files were removed">>

\* variant: the destination is created before the archive is looked for
NotFoundLeavesCreated(path) == [path EXCEPT !.exists = TRUE]

\* FileNotFoundError is raised before the try block: mkdir has not run
NotFoundLeaves(path) == path

\* variant: no report once the loop is over
LastReportNone(total_files, extracted) == <<>>

\* progress_callback(total_files, total_files) once the loop is over
LastReport(total_files, extracted) ==
    <<[current |-> total_files, total |-> total_files, extracted |-> extracted]>>

exUnchanged == <<pipeVars, uiVars, dmVars, idxVars, renVars, perVars, orgVars, pinVars, cfgVars>>

\* extract() up to the opening of the archive
ExtractCall ==
    /\ ex_pc = "call"
    /\ IF ~ex_zip.exists
       THEN /\ ex_cause' = "missing"
            /\ ex_raised' = [type |-> "FileNotFoundError", text |-> <<"ZIP file does not exist">>]
            /\ ex_pc' = "raised"
            /\ ex_path' = NotFoundLeaves(ex_path)
       ELSE IF ~ex_zip.readable
       THEN /\ ex_cause' = "NotAZip"
            /\ ex_raised' = Reraised("NotAZip", <<"File is not a zip file">>)
            /\ ex_path' = ExtractCleanup("NotAZip", Mkdir(ex_path))
            /\ ex_pc' = "raised"
       ELSE /\ ex_path' = Mkdir(ex_path)
            /\ ex_pc' = "loop"
            /\ UNCHANGED <<ex_cause, ex_raised>>
    /\ UNCHANGED <<ex_zip, ex_callback, ex_index, ex_path0, ex_calls, ex_message>>
    /\ UNCHANGED exUnchanged

\* one turn of the loop: the entry is extracted and the callback may be invoked
ExtractOne ==
    /\ ex_pc = "loop"
    /\ ex_index < ex_zip.total_files
    /\ ex_path' = [ex_path EXCEPT !.files = @ + 1]
    /\ ex_calls' = IF ex_callback /\ Reports(ex_index, ex_zip.total_files)
                   THEN Append(ex_calls, [current |-> ex_index + 1,
                                          total |-> ex_zip.total_files,
                                          extracted |-> ex_index + 1])
                   ELSE ex_calls
    /\ ex_index' = ex_index + 1
    /\ UNCHANGED <<ex_zip, ex_callback, ex_pc, ex_path0, ex_cause, ex_raised, ex_message>>
    /\ UNCHANGED exUnchanged

\* one turn of the loop: zip_ref.extract raises, an except clause takes over
ExtractFails ==
    /\ ex_pc = "loop"
    /\ ex_index < ex_zip.total_files
    /\ \E cause \in EntryFailures, member \in MemberNames :
          /\ ex_cause' = cause
          /\ ex_raised' = Reraised(cause, ErrorText(cause, member))
          /\ ex_path' = ExtractCleanup(cause, ex_path)
    /\ ex_pc' = "raised"
    /\ UNCHANGED <<ex_zip, ex_callback, ex_index, ex_path0, ex_calls, ex_message>>
    /\ UNCHANGED exUnchanged

\* the loop is over: the last report, and extract() returns True
ExtractReturn ==
    /\ ex_pc = "loop"
    /\ ex_index = ex_zip.total_files
    /\ ex_calls' = IF ex_callback
                   THEN ex_calls \o LastReport(ex_zip.total_files, ex_index)
                   ELSE ex_calls
    /\ ex_pc' = "returned"
    /\ UNCHANGED <<ex_zip, ex_callback, ex_index, ex_path, ex_path0, ex_cause, ex_raised,
                   ex_message>>
    /\ UNCHANGED exUnchanged

\* run(): the except clause that matches emits importFinished(False, message)
RunExcept ==
    /\ ex_pc = "raised"
    /\ ex_message' = UserMessage(ex_raised)
    /\ ex_pc' = "finished"
    /\ UNCHANGED <<ex_zip, ex_callback, ex_index, ex_path, ex_path0, ex_calls, ex_cause,
                   ex_raised>>
    /\ UNCHANGED exUnchanged

\* extract() is called on an archive, with a destination that may exist already
InitExtract ==
    /\ InitPipe
    /\ InitUI
    /\ InitDM
    /\ InitIdx
    /\ InitRen
    /\ InitPer
    /\ InitOrg
    /\ InitPin
    /\ InitCfg
    /\ ex_zip \in [exists : BOOLEAN, readable : BOOLEAN,
                   total_files : (0..MaxEntries) \cup LargeTotals]
    /\ ex_zip.readable => ex_zip.exists
    /\ ~ex_zip.readable => ex_zip.total_files = 0
    /\ ex_callback \in BOOLEAN
    /\ ex_pc = "call"
    /\ ex_index = 0
    /\ ex_path \in {[exists |-> FALSE, files |-> 0, stale |-> 0],
                    [exists |-> TRUE, files |-> 0, stale |-> 0],
                    [exists |-> TRUE, files |-> 0, stale |-> 1]}
    /\ ex_path0 = ex_path
    /\ ex_calls = <<>>
    /\ ex_cause = "none"
    /\ ex_raised = [type |-> "none", text |-> <<>>]
    /\ ex_message = <<>>

NextExtract ==
    \/ ExtractCall
    \/ ExtractOne
    \/ ExtractFails
    \/ ExtractReturn
    \/ RunExcept

SpecExtract == InitExtract /\ [][NextExtract]_vars

\* the class a reader puts a message in
MessageClass(m) ==
    IF m[1] = "ZIP file not found, check the path" THEN "file not found"
    ELSE IF Len(m) >= 2 /\ m[2] = "disk space insufficient" THEN "disk full"
    ELSE IF Len(m) >= 2 /\ m[2] = "invalid ZIP file" THEN "corrupt archive"
    ELSE "generic failure"

\* the class the cause belongs to
CauseClass(cause) ==
    CASE cause = "missing" -> "file not found"
      [] cause = "ENOSPC" -> "disk full"
      [] cause \in {"NotAZip", "BadCRC"} -> "corrupt archive"
      [] OTHER -> "generic failure"

\* C22: the message of the terminal failure is of the class of its cause:
\* archive missing, storage exhausted, archive unreadable, anything else
C22_MessageClassifiedByCause ==
    ex_pc = "finished" => MessageClass(ex_message) = CauseClass(ex_cause)

\* C23: while extract() is in its loop, two consecutive invocations of the
\* callback are at least total/100 entries apart, for every total >= 1
C23_ThrottledToOnePercent ==
    (ex_pc = "loop" /\ ex_zip.total_files >= 1) =>
        \A k \in 1..(Len(ex_calls) - 1) :
            (ex_calls[k + 1].current - ex_calls[k].current) * 100 >= ex_zip.total_files

\* C24: every invocation of the callback passes 0 <= entriesDone <= entriesTotal,
\* and when extract() has returned the last invocation is (total, total), made
\* after the last entry was extracted; an archive without entries included
C24_LastReportIsTotal ==
    /\ \A k \in 1..Len(ex_calls) :
          /\ ex_calls[k].total = ex_zip.total_files
          /\ 0 <= ex_calls[k].current
          /\ ex_calls[k].current <= ex_calls[k].total
    /\ (ex_pc = "returned" /\ ex_callback) =>
          /\ ex_calls # <<>>
          /\ ex_calls[Len(ex_calls)].current = ex_zip.total_files
          /\ ex_calls[Len(ex_calls)].total = ex_zip.total_files
          /\ ex_calls[Len(ex_calls)].extracted = ex_zip.total_files
          /\ ex_path.files = ex_zip.total_files

\* an archive of 250 entries was extracted, reported every second entry
C24_Witness ==
    /\ ex_pc = "returned"
    /\ ex_callback
    /\ ex_zip.total_files = 250
    /\ Len(ex_calls) = 126
    /\ ex_calls[125].current = 249
    /\ ex_calls[126].current = 250

\* C25: when the archive does not exist, extract() raises FileNotFoundError and
\* has touched nothing: the destination is not created, and a destination that
\* exists keeps what it holds
C25_NotFoundTouchesNothing ==
    (~ex_zip.exists /\ ex_pc # "call") =>
        /\ ex_raised.type = "FileNotFoundError"
        /\ ex_path = ex_path0
        /\ ex_index = 0
        /\ ex_calls = <<>>

\* extract() has raised for a missing archive and a destination that did not exist
C25_Witness ==
    /\ ~ex_zip.exists
    /\ ex_pc = "raised"
    /\ ex_raised.type = "FileNotFoundError"
    /\ ~ex_path0.exists
    /\ ~ex_path.exists

\* what the source path of a record resolves to
ResolvesTo(chart) == get_icao_from_path(RenDataPath \o old_path(chart))

\* C26: the airport pass never renames a file whose source resolves to the
\* en-route tree, and the en-route pass never renames one whose source
\* resolves to the Terminal tree or to GeneralDoc
C26_PassesKeepToTheirTree ==
    [][/\ (AirportRecord /\ renamed_count' # renamed_count)
            => ResolvesTo(ad_json.records[ren_pos]) # Seg("ENROUTE")
       /\ (EnrouteRecord /\ renamed_count' # renamed_count)
            => ResolvesTo(enr_json.records[ren_pos]) = Seg("ENROUTE")]_vars

\* the routing rule as the specification words it: the first segment that
\* contains "GeneralDoc", is equal to "Terminal" (and has a successor), or
\* contains "ENROUTE" decides
RECURSIVE RouteFrom(_, _)
RouteFrom(parts, i) ==
    IF i > Len(parts) THEN <<>>
    ELSE IF Contains(parts[i], "GeneralDoc") THEN Seg("GeneralDoc")
    ELSE IF parts[i] = Seg("Terminal") /\ i + 1 <= Len(parts) THEN parts[i + 1]
    ELSE IF Contains(parts[i], "ENROUTE") THEN Seg("ENROUTE")
    ELSE RouteFrom(parts, i + 1)

\* C27: a record renamed by the airport pass lands under the root its source
\* path selects: GeneralDoc for a segment containing "GeneralDoc", the airport
\* after a segment equal to "Terminal"; a segment that only contains
\* "Terminal" selects no airport
C27_RootBySegments ==
    [][(AirportRecord /\ renamed_count' # renamed_count) =>
          LET chart == ad_json.records[ren_pos]
              root == RouteFrom(RenDataPath \o old_path(chart), 1)
          IN  /\ root \notin {<<>>, Seg("ENROUTE")}
              /\ \E f \in ren_tree' :
                    f.path = RenTerminalPath \o <<root, new_name(chart.name)>>]_vars

\* a record of the pass whose file is still at its source although nothing
\* stood in the way of its rename: the source is not denied and not itself a
\* destination of the pass, and the destination was free or replaceable
LeftUnmoved(c, new, sources, destinations) ==
    /\ RenExists(ren_tree, old_path(c))
    /\ old_path(c) \notin denied
    /\ old_path(c) \notin destinations
    /\ overwrites \/ (~RenExists(ren_tree, new) /\ new \notin sources)

\* C28: a record whose source exists and whose rename does not raise is moved
\* to its normalized destination, and when a pass ends no record that could be
\* moved was left out, whatever happened to the records before it
C28_FailuresDoNotAbort ==
    [][/\ \A old \in SourcePaths, new \in DestinationPaths :
             (/\ AirportRecord \/ EnrouteRecord
              /\ renamed_count' # renamed_count
              /\ old = old_path(IF ren_pc = "ad" THEN ad_json.records[ren_pos]
                                                 ELSE enr_json.records[ren_pos])
              /\ new = (IF ren_pc = "ad" THEN airport_new_path(ad_json.records[ren_pos])
                                         ELSE enroute_new_path(enr_json.records[ren_pos])))
             => \E f \in ren_tree, g \in ren_tree' :
                   f.path = old /\ g.path = new /\ g.id = f.id
       /\ AirportPassEnd =>
             \A c \in ActingAd :
                 ~LeftUnmoved(c, airport_new_path(c),
                              {old_path(d) : d \in ActingAd},
                              {airport_new_path(d) : d \in ActingAd})
       /\ EnroutePassEnd =>
             \A c \in ActingEnr :
                 ~LeftUnmoved(c, enroute_new_path(c),
                              {old_path(d) : d \in ActingEnr},
                              {enroute_new_path(d) : d \in ActingEnr})]_vars

\* the first record of AD.JSON could not be renamed, the second was moved
C28_Witness ==
    /\ ren_pc = "enr"
    /\ ren_run = 1
    /\ ad_json.exists
    /\ Len(ad_json.records) = 2
    /\ old_path(ad_json.records[1]) \in denied
    /\ RenExists(ren_tree, old_path(ad_json.records[1]))
    /\ ~AirportSkips(ad_json.records[2])
    /\ \E f \in ren_tree :
          /\ f.path = airport_new_path(ad_json.records[2])
          /\ f.id = old_path(ad_json.records[2])
          /\ f.id # f.path

\* ---------------------------------------------------------------------------
\* ChartProcessor.organize_airport_files
\* ---------------------------------------------------------------------------

CHART_TYPES ==
    <<"ADC", "APDC", "GMC", "DGS", "AOC", "PATC", "FDA", "ATCMAS", "SID", "STAR",
      "WAYPOINT LIST", "DATABASE CODING TABLE", "IAC", "ATCSMAC">>

\* a root-level PDF whose name holds two tags, the later tag of the list first
PDF_STAR_SID == <<"STAR", "-", "SID", ".pdf">>

\* chart_type in pdf_file.name
TypeInName(chart_type, name) == \E k \in 1..Len(name) : name[k] = chart_type

\* the loop over CHART_TYPES from position k on: the folder the file goes to,
\* "" when the loop ends without a match
RECURSIVE type_folder_from(_, _)
type_folder_from(name, k) ==
    IF k > Len(CHART_TYPES) THEN ""
    ELSE IF TypeInName(CHART_TYPES[k], name) THEN CHART_TYPES[k]
    ELSE type_folder_from(name, k + 1)

type_folder(name) == type_folder_from(name, 1)

\* the airport directories organize_airport_files can find
OrganizeShapes ==
    { root \cup held :
        root \in { {},
                   {Pdf("", PDF_0), Pdf("", PDF_1A)},
                   {Pdf("", PDF_1A), Pdf("", PDF_STAR_SID)},
                   {Pdf("", PDF_0), Pdf("", PDF_1A), Pdf("", PDF_STAR_SID),
                    Pdf("", PDF_GMC)} },
        held \in { {}, {Pdf("SID", PDF_1A)} } }

orgUnchanged == <<pipeVars, uiVars, dmVars, renVars, perVars, exVars, pinVars, cfgVars>>
orgIdxUnchanged ==
    <<enroute_pdfs, index_json, futures, total_charts, max_workers, fitz, listing,
      treeAtStart, gen_pc>>

\* airports = [d for d in self.terminal_path.iterdir() if d.is_dir()]
OrganizeBegin ==
    /\ org_pc = "call"
    /\ org_airports' = Enumerate(AirportOrder, DOMAIN terminal_tree, listing)
    /\ org_pc' = "airports"
    /\ UNCHANGED <<terminal_tree, org_pdf_files, moved_count, org_replaces>>
    /\ UNCHANGED orgIdxUnchanged
    /\ UNCHANGED orgUnchanged

\* pdf_files = list(airport_path.glob("*.pdf")) for the next airport
OrganizeAirport ==
    /\ org_pc = "airports"
    /\ org_airports # <<>>
    /\ org_pdf_files' =
          Enumerate(NameOrder,
                    {x.name : x \in {y \in terminal_tree[Head(org_airports)] : y.folder = ""}},
                    listing)
    /\ org_pc' = "files"
    /\ UNCHANGED <<terminal_tree, org_airports, moved_count, org_replaces>>
    /\ UNCHANGED orgIdxUnchanged
    /\ UNCHANGED orgUnchanged

\* one PDF: the first chart type in its name names the folder it is moved to;
\* a rename that raises is caught by the except clause around the whole
\* function, which ends it
OrganizeFile ==
    /\ org_pc = "files"
    /\ org_pdf_files # <<>>
    /\ LET airport == Head(org_airports)
           name == Head(org_pdf_files)
           folder == type_folder(name)
           dir == terminal_tree[airport]
       IN  IF folder = ""
           THEN /\ org_pdf_files' = Tail(org_pdf_files)
                /\ UNCHANGED <<terminal_tree, moved_count, org_pc, org_airports>>
           ELSE IF Pdf(folder, name) \in dir /\ ~org_replaces
           THEN /\ org_pc' = "done"
                /\ UNCHANGED <<terminal_tree, moved_count, org_pdf_files, org_airports>>
           ELSE /\ terminal_tree' =
                      [terminal_tree EXCEPT
                          ![airport] = (dir \ {Pdf("", name)}) \cup {Pdf(folder, name)}]
                /\ moved_count' = moved_count + 1
                /\ org_pdf_files' = Tail(org_pdf_files)
                /\ UNCHANGED <<org_pc, org_airports>>
    /\ UNCHANGED org_replaces
    /\ UNCHANGED orgIdxUnchanged
    /\ UNCHANGED orgUnchanged

\* the PDFs of the airport are done: next airport
OrganizeAirportDone ==
    /\ org_pc = "files"
    /\ org_pdf_files = <<>>
    /\ org_airports' = Tail(org_airports)
    /\ org_pc' = "airports"
    /\ UNCHANGED <<terminal_tree, org_pdf_files, moved_count, org_replaces>>
    /\ UNCHANGED orgIdxUnchanged
    /\ UNCHANGED orgUnchanged

\* the airports are done: organize_airport_files returns
OrganizeReturn ==
    /\ org_pc = "airports"
    /\ org_airports = <<>>
    /\ org_pc' = "done"
    /\ UNCHANGED <<terminal_tree, org_airports, org_pdf_files, moved_count, org_replaces>>
    /\ UNCHANGED orgIdxUnchanged
    /\ UNCHANGED orgUnchanged

\* organize_airport_files is called on a Terminal tree
InitOrganize ==
    /\ InitPipe
    /\ InitUI
    /\ InitDM
    /\ InitRen
    /\ InitPer
    /\ InitEx
    /\ InitPin
    /\ InitCfg
    /\ \E present \in SUBSET Airports : terminal_tree \in [present -> OrganizeShapes]
    /\ enroute_pdfs = {}
    /\ index_json = [d \in DOMAIN terminal_tree \cup {"ENROUTE"} |-> NoIndex]
    /\ futures = <<>>
    /\ total_charts = 0
    /\ max_workers = 1
    /\ fitz = FALSE
    /\ listing \in {"asc", "desc"}
    /\ treeAtStart = terminal_tree
    /\ gen_pc = "idle"
    /\ org_pc = "call"
    /\ org_airports = <<>>
    /\ org_pdf_files = <<>>
    /\ moved_count = 0
    /\ org_replaces \in BOOLEAN

NextOrganize ==
    \/ OrganizeBegin
    \/ OrganizeAirport
    \/ OrganizeFile
    \/ OrganizeAirportDone
    \/ OrganizeReturn

SpecOrganize == InitOrganize /\ [][NextOrganize]_vars

\* the tags of the vocabulary a name contains, and the first of them in the
\* order of the vocabulary
TagsIn(name) == {k \in 1..Len(CHART_TYPES) : \E i \in 1..Len(name) : name[i] = CHART_TYPES[k]}
FirstTag(name) == CHART_TYPES[CHOOSE k \in TagsIn(name) : \A j \in TagsIn(name) : k <= j]

RootPdfsAtStart(a) == {x.name : x \in {y \in treeAtStart[a] : y.folder = ""}}

\* C29: after organize every PDF that was at the root of an airport directory
\* and has a tag in its name lies in the folder of the first such tag of the
\* vocabulary, every one without tag is still at the root, no file was lost
\* and none moved twice
C29_OrganizedByFirstTag ==
    org_pc = "done" =>
        /\ \A a \in DOMAIN treeAtStart :
              /\ \A n \in RootPdfsAtStart(a) :
                    IF TagsIn(n) = {}
                    THEN Pdf("", n) \in terminal_tree[a]
                    ELSE /\ Pdf(FirstTag(n), n) \in terminal_tree[a]
                         /\ Pdf("", n) \notin terminal_tree[a]
              /\ Cardinality(terminal_tree[a]) = Cardinality(treeAtStart[a])
        /\ moved_count
              <= Cardinality({<<a, n>> \in (DOMAIN treeAtStart) \X {x.name : x \in UNION OrganizeShapes} :
                                 n \in RootPdfsAtStart(a) /\ TagsIn(n) # {}})

\* ---------------------------------------------------------------------------
\* The sort values of the generated indexes
\* ---------------------------------------------------------------------------

SortValues == {CHART_TYPES[k] : k \in 1..Len(CHART_TYPES)} \cup {"general", "enroute"}

\* C30: in every index.json written, each entry's sort value is a chart type
\* of the vocabulary, "general" or "enroute"
C30_SortInVocabulary ==
    \A d \in DOMAIN index_json :
        index_json[d].exists =>
            \A i \in 1..Len(index_json[d].entries) :
                index_json[d].entries[i].sort \in SortValues

\* ---------------------------------------------------------------------------
\* Failures of single index tasks
\* ---------------------------------------------------------------------------

FailedAirports == {futures[i].airport : i \in {j \in 1..Len(futures) : futures[j].failed}}

\* C31: when generate_index is done, a directory whose task failed has added
\* nothing to the total, every other airport directory and ENROUTE have their
\* index.json, and the total is the number of entries written in the
\* directories whose task succeeded
C31_FailedTaskCountsZero ==
    gen_pc = "done" =>
        LET ok == DOMAIN treeAtStart \ FailedAirports
        IN  /\ \A a \in ok : index_json[a].exists
            /\ index_json["ENROUTE"].exists
            /\ total_charts = SumOver(ok, [a \in ok |-> Len(index_json[a].entries)])

\* a task failed after it had built entries, another directory was indexed
C31_Witness ==
    /\ gen_pc = "done"
    /\ \E i \in 1..Len(futures) : futures[i].failed /\ Len(futures[i].entries) > 0
    /\ \E a \in DOMAIN treeAtStart \ FailedAirports : Len(index_json[a].entries) > 0

\* ---------------------------------------------------------------------------
\* The frame of the merge step
\* ---------------------------------------------------------------------------

IsMerged(x) == x.name = MergedName(x.folder)

\* the merge step of a task leaves every file that is not a merged PDF as it
\* is and adds nothing but merged PDFs of special folders
MergeFrame(before, after) ==
    /\ \A x \in before : ~IsMerged(x) => x \in after
    /\ \A x \in after \ before :
          /\ IsMerged(x)
          /\ \E k \in 1..Len(SPECIAL_CHART_TYPES) : x.folder = SPECIAL_CHART_TYPES[k]

\* the task of directory a was not made to fail and its merge step wrote
\* nothing in the folder of a special type that is there
MergeSkipped(a) ==
    /\ a \notin FailedAirports
    /\ \E x \in treeAtStart[a] : x.folder = "GMC"
    /\ \A x \in terminal_tree[a] : ~IsMerged(x)

\* C32: the merge step removes and changes no chart PDF and writes nothing
\* but the merged PDF of a special folder; when generate_index is done every
\* directory whose task was not made to fail has its index.json, also when
\* the merge was skipped or failed
C32_MergeKeepsOriginals ==
    /\ \A a \in DOMAIN treeAtStart : MergeFrame(treeAtStart[a], terminal_tree[a])
    /\ gen_pc = "done" =>
          \A a \in DOMAIN treeAtStart \ FailedAirports : index_json[a].exists

\* one directory got its merged PDF beside the originals, in another the
\* merge failed on an unreadable file, and both were indexed
C32_Witness ==
    /\ gen_pc = "done"
    /\ fitz
    /\ \E a \in DOMAIN treeAtStart :
          /\ MergeSkipped(a)
          /\ index_json[a].exists
    /\ \E a \in DOMAIN treeAtStart :
          /\ File("GMC", MergedName("GMC"), <<PDF_GMC>>) \in terminal_tree[a]
          /\ Pdf("GMC", PDF_GMC) \in terminal_tree[a]
          /\ index_json[a].exists

\* ---------------------------------------------------------------------------
\* The period of an import whose folder name gives none
\* ---------------------------------------------------------------------------

Unresolved(name) == name # None /\ extract_airac_period(name) = None

\* C33: a worker keeps the period it was constructed with until step 2; when
\* the name of the top-level folder gives no period, step 2 ends no import
\* but goes on to the move with that period unchanged, and the move puts the
\* folder at data/<that period>
C33_UnresolvedKeepsConfigured ==
    [][ /\ (pc \notin {"idle", "done", "detect"}) => airac_period' = airac_period
        /\ (pc = "detect" /\ root_folder' # root_folder /\ Unresolved(root_folder'))
              => /\ airac_period' = airac_period
                 /\ pc' = "move"
                 /\ \A k \in 1..Len(events') : events'[k].kind = "progress"
        /\ (pc = "move" /\ Unresolved(root_folder) /\ ~ioFault')
              => /\ pc' = "process"
                 /\ fs'.data[airac_period] =
                        [exists |-> TRUE, files |-> FilesOf(fs, root_folder)] ]_vars

\* the folder CHARTS has been moved to the cycle directory of the period the
\* worker was constructed with
C33_Witness ==
    /\ pc = "process"
    /\ Unresolved(root_folder)
    /\ airac_period = P_2403
    /\ fs.data[P_2403].exists
    /\ [rel |-> <<"Terminal", "ZBAA", "1.pdf">>, src |-> "undated"] \in fs.data[P_2403].files

\* ---------------------------------------------------------------------------
\* The worker _onImportFinished acts on
\* ---------------------------------------------------------------------------

\* C34: whenever _onImportFinished handles a terminal event, the worker held
\* in _import_worker is the one that emitted the event, so the fields copied
\* and the worker cleared and scheduled for deletion are those of the import
\* that has just finished
C34_HandlerActsOnEmitter ==
    [][(signals'.dataImportCompleted # signals.dataImportCompleted)
            => import_worker = Head(postedEvents).w]_vars

\* ---------------------------------------------------------------------------
\* The frame of a failed import
\* ---------------------------------------------------------------------------

DmFields == <<dm_airac_period, dm_dir_name, eaip_handler>>

\* C35: no step of an import that ends in a failure, the handling of its
\* terminal event included, changes the period, the directory name or the
\* EaipHandler of DataManager; handling the failure emits dataImportCompleted
\* once and no airportsLoaded
C35_FailureChangesNothing ==
    [][ /\ (pc # "idle" /\ lastQuery' = lastQuery
                /\ ~(pc = "done" /\ LastEvent.success))
              => DmFields' = DmFields
        /\ (pc = "done" /\ pc' = "idle" /\ ~LastEvent.success)
              => /\ DmFields' = DmFields
                 /\ signals'.airportsLoaded = signals.airportsLoaded
                 /\ signals'.dataImportCompleted = signals.dataImportCompleted + 1 ]_vars

\* the failure of an import that had moved its folder into place was handled
C35_Witness ==
    /\ pc = "idle"
    /\ nImports > 0
    /\ ~LastEvent.success
    /\ signals.dataImportCompleted = nImports
    /\ signals.airportsLoaded = 0
    /\ \E p \in DOMAIN fs.data : fs.data[p].exists /\ ~dataAtStart[p].exists

\* ---------------------------------------------------------------------------
\* DataManager.updateAiracPeriod over EaipHandler.update_period
\* ---------------------------------------------------------------------------

P_2511 == <<"2", "5", "1", "1">>

\* the periods the user can ask for: cycles, a text that is too short and one
\* that holds no digit
RequestedPeriods == {P_2505, P_2403, P_2511, <<"2", "5">>, <<"C", "Y", "C", "L">>}

\* the cycle directories update_period can find
CycleShapes ==
    { {},
      {[rel |-> <<"Data", "EAIP_CN", "Terminal", "ZSSS", "1.pdf">>, src |-> "fallback"]},
      {[rel |-> <<"Data", "EAIP", "Terminal", "ZBAA", "index.json">>, src |-> "indexed"],
       [rel |-> <<"Data", "EAIP", "Terminal", "ZBAA", "SID", "1A.pdf">>, src |-> "indexed"]},
      {[rel |-> <<"Terminal", "ZBAA", "index.json">>, src |-> "flattened"]} }

\* period.isdigit() and len(period) == 4
ValidPeriod(period) == Len(period) = 4 /\ \A i \in 1..Len(period) : period[i] \in Digits

CycleFiles(period) == IF period \in DOMAIN fs.data THEN fs.data[period].files ELSE {}

\* the directories of a directory of a cycle
SubDirs(files, pre) ==
    {x.rel[Len(pre) + 1] : x \in {y \in Subtree(files, pre) : Len(y.rel) >= Len(pre) + 2}}

\* auto_detect_dir_name: the names it can return, none when it returns None
detected_dirs(period) ==
    {d \in SubDirs(CycleFiles(period), <<"Data">>) : d \in VendorTagged}

\* the airport directories of a Terminal directory that lack an index.json
Unindexed(files, terminal) ==
    {a \in SubDirs(files, terminal) :
        ~\E x \in files : x.rel = terminal \o <<a, "index.json">>}

\* ChartProcessor(base_path, dir_name).process(["rename", "organize", "index"]),
\* as far as the files named index.json go: every airport directory of
\* base_path/Data/<dir_name>/Terminal gets one
process(files, dir) ==
    LET terminal == <<"Data", dir, "Terminal">>
    IN  {x \in files : ~\E a \in SubDirs(files, terminal) : x.rel = terminal \o <<a, "index.json">>}
            \cup {[rel |-> terminal \o <<a, "index.json">>, src |-> "generated"] :
                    a \in SubDirs(files, terminal)}

\* the handler after lines 79-86 of update_period, d being what
\* auto_detect_dir_name returned when it returned a name
Repointed(h, period, dirs, d) ==
    LET h1 == [h EXCEPT !.airac_period = period, !.base_path = period]
    IN  IF dirs = {} THEN h1
        ELSE [h1 EXCEPT !.dir_name = d,
                        !.terminal_path = [period |-> period, rel |-> <<"Data", d, "Terminal">>]]

updUnchanged ==
    <<pc, zip_path, airac_period, dir_name, index, root_folder, events, extractErr,
      ioFault, dataAtStart, nImports, uiVars, idxVars, renVars, perVars, laterVars, cache>>

UpdateResult(period, success) == Query("updateAiracPeriod", <<period>>, period, {}, {}, success)

\* DataManager.updateAiracPeriod(period); unreadable: json.load raises on an
\* index.json while the charts are counted
updateAiracPeriod(period, unreadable) ==
    /\ pc = "idle"
    /\ IF ~ValidPeriod(period)
       THEN /\ lastQuery' = UpdateResult(None, FALSE)
            /\ UNCHANGED <<fs, eaip_handler, dm_airac_period, dm_dir_name>>
       ELSE LET dirs == detected_dirs(period)
            IN  \E d \in (IF dirs = {} THEN {eaip_handler.dir_name} ELSE dirs) :
                LET h == Repointed(eaip_handler, period, dirs, d)
                    seen == CycleFiles(h.terminal_path.period)
                    missing == Unindexed(seen, h.terminal_path.rel)
                    files == IF missing # {} THEN process(fs.data[period].files, h.dir_name)
                             ELSE fs.data[period].files
                IN  /\ eaip_handler' = h
                    /\ IF \/ ~fs.data[period].exists
                          \/ ~PathExists(seen, h.terminal_path.rel)
                       THEN /\ lastQuery' = UpdateResult(period, FALSE)
                            /\ UNCHANGED <<fs, dm_airac_period, dm_dir_name>>
                       ELSE /\ fs' = [fs EXCEPT !.data[period].files = files]
                            /\ IF unreadable
                               THEN /\ lastQuery' = UpdateResult(period, FALSE)
                                    /\ UNCHANGED <<dm_airac_period, dm_dir_name>>
                               ELSE /\ lastQuery' = UpdateResult(period, TRUE)
                                    /\ dm_airac_period' = period
                                    /\ dm_dir_name' = h.dir_name
    /\ UNCHANGED updUnchanged

\* DataManager after __init__, over any cycle directories
InitUpdatePeriod ==
    /\ InitUI
    /\ InitDM
    /\ InitIdx
    /\ InitRen
    /\ InitPer
    /\ InitLater
    /\ \E c \in [{P_2505, P_2403, P_2511} -> CycleShapes] :
          fs = [temp |-> NoTemp,
                data |-> [p \in AllPeriods |->
                            IF p \in DOMAIN c /\ c[p] # {}
                            THEN [exists |-> TRUE, files |-> c[p]] ELSE NoDir]]
    /\ pc = "idle"
    /\ zip_path = "missing"
    /\ airac_period = P_2505
    /\ dir_name = "EAIP"
    /\ index = 0
    /\ root_folder = None
    /\ events = <<>>
    /\ extractErr = [kind |-> "none", atEntry |-> FALSE]
    /\ ioFault = FALSE
    /\ dataAtStart = fs.data
    /\ nImports = 0

NextUpdatePeriod ==
    \E period \in RequestedPeriods, unreadable \in BOOLEAN : updateAiracPeriod(period, unreadable)

SpecUpdatePeriod == InitUpdatePeriod /\ [][NextUpdatePeriod]_vars

\* C36: a call of updateAiracPeriod that returns success=false leaves the
\* EaipHandler as it was, and the period of DataManager is that of its
\* handler in every state
C36_FailedUpdateKeepsHandler ==
    [][ /\ (lastQuery'.op = "updateAiracPeriod" /\ ~lastQuery'.emitted)
              => eaip_handler' = eaip_handler
        /\ dm_airac_period' = eaip_handler'.airac_period ]_vars

\* ---------------------------------------------------------------------------
\* The number of chart files across the rename passes
\* ---------------------------------------------------------------------------

\* C37: no step of rename_chart_files changes the number of PDF files of the
\* cycle directory: the passes lose no chart file
C37_RenameLosesNoFile ==
    [][Cardinality(ren_tree') = Cardinality(ren_tree)]_vars

\* ---------------------------------------------------------------------------
\* generate_index run on a Terminal directory it has indexed before
\* ---------------------------------------------------------------------------

\* the airport directories of the run before
ReindexShapes ==
    { {Pdf("GMC", PDF_GMC)},
      {Pdf("", PDF_0), Pdf("SID", PDF_1A), Pdf("SID", PDF_2B), Pdf("GMC", PDF_GMC)} }

\* generate_index is called on what an earlier call of it has left: in every
\* airport directory the merged PDFs and the index.json of that call, and
\* the index.json of ENROUTE
InitReindex ==
    /\ InitPipe
    /\ InitUI
    /\ InitDM
    /\ InitRen
    /\ InitPer
    /\ InitLater
    /\ enroute_pdfs \in {{}, {PDF_ENR1, PDF_ENR2}}
    /\ max_workers \in 1..MaxWorkers
    /\ fitz \in BOOLEAN
    /\ listing \in {"asc", "desc"}
    /\ \E present \in SUBSET Airports : \E before \in [present -> ReindexShapes] :
          /\ terminal_tree = [a \in present |-> merge_special_charts(before[a], fitz)]
          /\ index_json =
                [d \in present \cup {"ENROUTE"} |->
                    IF d = "ENROUTE" THEN IndexFile(EnrouteIndex(enroute_pdfs, listing))
                    ELSE IndexFile(AirportIndex(before[d], d, fitz, listing))]
    /\ futures = <<>>
    /\ total_charts = 0
    /\ treeAtStart = terminal_tree
    /\ gen_pc = "call"

SpecReindex == InitReindex /\ [][NextIndex]_vars

\* the number of times the page occurs in the pages
Occurrences(page, pages) == Cardinality({k \in 1..Len(pages) : pages[k] = page})

\* C38: the second run of generate_index writes into every directory the
\* index.json that is there already, and when it is done the merged PDF of a
\* folder holds the page of every chart of the folder once
C38_SecondIndexRunSame ==
    [][ /\ \A d \in DOMAIN index_json : index_json'[d] = index_json[d]
        /\ gen_pc' = "done" =>
              \A a \in DOMAIN terminal_tree' :
                  \A x \in terminal_tree'[a] : \A y \in terminal_tree'[a] :
                      (IsMerged(x) /\ ~IsMerged(y) /\ y.folder = x.folder)
                          => Occurrences(y.name, x.pages) = 1 ]_vars

-----------------------------------------------------------------------------
(* PinModel: the list of pinned charts and its cap *)

MaxPins == 2
MaxLoad == 3

ChartIds == {"c1", "c2", "c3"}

\* what a maxPins assignment or the configuration can hand over: any int
PinValues == (-1)..MaxPins

\* the lists loadPinnedCharts can be given (duplicates are possible)
ChartLists == UNION {[1..n -> ChartIds] : n \in 0..MaxLoad}

\* l[:value] of a Python list: a negative value counts from the end
Slice(l, value) ==
    IF value >= 0
    THEN SubSeq(l, 1, IF value < Len(l) THEN value ELSE Len(l))
    ELSE SubSeq(l, 1, IF Len(l) + value > 0 THEN Len(l) + value ELSE 0)

IsPinned(chart_id) == \E i \in 1..Len(pinned_charts) : pinned_charts[i] = chart_id

\* list.pop(i) of the first entry with this chart_id
WithoutFirst(l, chart_id) ==
    LET i == CHOOSE j \in 1..Len(l) : l[j] = chart_id /\ \A k \in 1..(j - 1) : l[k] # chart_id
    IN  SubSeq(l, 1, i - 1) \o SubSeq(l, i + 1, Len(l))

pinUnchanged == <<pipeVars, uiVars, dmVars, idxVars, renVars, perVars, exVars, orgVars, cfgVars>>

\* the maxPins setter
maxPins(value) ==
    /\ IF max_pins # value
       THEN /\ max_pins' = value
            /\ pinned_charts' = IF Len(pinned_charts) > value
                                THEN Slice(pinned_charts, value)
                                ELSE pinned_charts
       ELSE UNCHANGED <<max_pins, pinned_charts>>
    /\ pin_last' = [op |-> "maxPins", result |-> FALSE]
    /\ UNCHANGED pinUnchanged

pinChart(chart_id) ==
    /\ IF IsPinned(chart_id) \/ Len(pinned_charts) >= max_pins
       THEN /\ pin_last' = [op |-> "pinChart", result |-> FALSE]
            /\ UNCHANGED pinned_charts
       ELSE /\ pinned_charts' = Append(pinned_charts, chart_id)
            /\ pin_last' = [op |-> "pinChart", result |-> TRUE]
    /\ UNCHANGED max_pins
    /\ UNCHANGED pinUnchanged

unpinChart(chart_id) ==
    /\ IF IsPinned(chart_id)
       THEN /\ pinned_charts' = WithoutFirst(pinned_charts, chart_id)
            /\ pin_last' = [op |-> "unpinChart", result |-> TRUE]
       ELSE /\ pin_last' = [op |-> "unpinChart", result |-> FALSE]
            /\ UNCHANGED pinned_charts
    /\ UNCHANGED max_pins
    /\ UNCHANGED pinUnchanged

loadPinnedCharts(charts_data) ==
    /\ pinned_charts' = Slice(charts_data, max_pins)
    /\ pin_last' = [op |-> "loadPinnedCharts", result |-> FALSE]
    /\ UNCHANGED max_pins
    /\ UNCHANGED pinUnchanged

clear ==
    /\ pinned_charts' = <<>>
    /\ pin_last' = [op |-> "clear", result |-> FALSE]
    /\ UNCHANGED max_pins
    /\ UNCHANGED pinUnchanged

\* PinModel(max_pins): the cap of a working configuration
InitPinModel ==
    /\ InitPipe
    /\ InitUI
    /\ InitDM
    /\ InitIdx
    /\ InitRen
    /\ InitPer
    /\ InitEx
    /\ InitOrg
    /\ InitCfg
    /\ pinned_charts = <<>>
    /\ max_pins \in 0..MaxPins
    /\ pin_last = [op |-> "none", result |-> FALSE]

NextPin ==
    \/ \E value \in PinValues : maxPins(value)
    \/ \E chart_id \in ChartIds : pinChart(chart_id)
    \/ \E chart_id \in ChartIds : unpinChart(chart_id)
    \/ \E charts_data \in ChartLists : loadPinnedCharts(charts_data)
    \/ clear

SpecPin == InitPinModel /\ [][NextPin]_vars

\* C39: after any sequence of pinChart, unpinChart, loadPinnedCharts, clear
\* and maxPins assignments the number of pinned charts is at most max_pins,
\* and a pinChart call that returns false leaves the pinned list unchanged.
C39_PinsWithinCap ==
    [][/\ Len(pinned_charts') <= max_pins'
       /\ (pin_last'.op = "pinChart" /\ ~pin_last'.result) => pinned_charts' = pinned_charts]_vars

-----------------------------------------------------------------------------
(* Config: the settings, their file and the class-level DEFAULT_CONFIG *)

\* key.split('.') of the keys in use
ConfigKeys == {<<"language">>, <<"max_pins">>, <<"theme", "mode">>, <<"import", "max_workers">>}

\* the values a caller sets
ConfigValues(key) ==
    CASE key = <<"language">> -> {"zh_CN", "en_US"}
      [] key = <<"max_pins">> -> {10, 5}
      [] key = <<"theme", "mode">> -> {"light", "dark"}
      [] key = <<"import", "max_workers">> -> {"auto", "4"}

EmptyDict == [k \in {} |-> k]

\* settings files a user may have: none, one written by an older version
\* (sections missing or partly filled), one with the user's own choices
UserFiles ==
    {NoConfigFile}
    \cup {[exists |-> TRUE, flat |-> f, sections |-> [theme |-> t, import |-> i]] :
            f \in {EmptyDict, [language |-> "en_US", max_pins |-> 5]},
            t \in {[present |-> FALSE, content |-> EmptyDict],
                   [present |-> TRUE, content |-> EmptyDict],
                   [present |-> TRUE, content |-> [mode |-> "dark"]]},
            i \in {[present |-> FALSE, content |-> EmptyDict],
                   [present |-> TRUE, content |-> [max_workers |-> "4"]]}}

\* result = default.copy(), then every key of user put over it
Overlay(default, user) ==
    [k \in (DOMAIN default) \cup (DOMAIN user) |->
        IF k \in DOMAIN user THEN user[k] ELSE default[k]]

\* _merge_config(DEFAULT_CONFIG, user): a section the file has is merged
\* into a new dict; a section the file lacks stays the dict of DEFAULT_CONFIG
merge_config(default, user) ==
    [flat |-> Overlay(ShippedFlat, user.flat),
     sections |-> [s \in DOMAIN default |->
        IF user.sections[s].present
        THEN [shared |-> FALSE, own |-> Overlay(default[s], user.sections[s].content)]
        ELSE [shared |-> TRUE, own |-> default[s]]]]

\* json.dump(self._config) into the file
Saved(c) ==
    [exists |-> TRUE, flat |-> c.flat,
     sections |-> [s \in DOMAIN c.sections |-> [present |-> TRUE, content |-> c.sections[s].own]]]

\* get(key)
get(key) ==
    IF Len(key) = 1 THEN config.flat[key[1]] ELSE config.sections[key[1]].own[key[2]]

\* the value of key in DEFAULT_CONFIG as shipped
ShippedValue(key) ==
    IF Len(key) = 1 THEN ShippedFlat[key[1]] ELSE ShippedSections[key[1]][key[2]]

cfgUnchanged == <<pipeVars, uiVars, dmVars, idxVars, renVars, perVars, exVars, orgVars, pinVars>>

\* Config(): __init__ calls load(); unreadable is json.load raising
load(unreadable) ==
    /\ IF config_file.exists
       THEN /\ config' = IF unreadable
                         THEN CopyOfDefault(DEFAULT_CONFIG)
                         ELSE merge_config(DEFAULT_CONFIG, config_file)
            /\ UNCHANGED config_file
       ELSE /\ config' = CopyOfDefault(DEFAULT_CONFIG)
            /\ config_file' = Saved(config')
    /\ cfg_last' = "load"
    /\ UNCHANGED DEFAULT_CONFIG
    /\ UNCHANGED cfgUnchanged

\* set(key, value): the walk config = config[k] reaches the nested dict
\* itself, which is DEFAULT_CONFIG's own when the section was never merged
set(key, value) ==
    /\ cfg_last # "none"
    /\ IF Len(key) = 1
       THEN /\ config' = [config EXCEPT !.flat[key[1]] = value]
            /\ UNCHANGED DEFAULT_CONFIG
       ELSE /\ config' = [config EXCEPT !.sections[key[1]].own[key[2]] = value]
            /\ DEFAULT_CONFIG' = IF config.sections[key[1]].shared
                                 THEN [DEFAULT_CONFIG EXCEPT ![key[1]][key[2]] = value]
                                 ELSE DEFAULT_CONFIG
    /\ cfg_last' = "set"
    /\ UNCHANGED config_file
    /\ UNCHANGED cfgUnchanged

save ==
    /\ cfg_last # "none"
    /\ config_file' = Saved(config)
    /\ cfg_last' = "save"
    /\ UNCHANGED <<DEFAULT_CONFIG, config>>
    /\ UNCHANGED cfgUnchanged

reset ==
    /\ cfg_last # "none"
    /\ config' = CopyOfDefault(DEFAULT_CONFIG)
    /\ config_file' = Saved(config')
    /\ cfg_last' = "reset"
    /\ UNCHANGED DEFAULT_CONFIG
    /\ UNCHANGED cfgUnchanged

\* the process starts: the class dict is as shipped, no Config exists yet
InitConfig ==
    /\ InitPipe
    /\ InitUI
    /\ InitDM
    /\ InitIdx
    /\ InitRen
    /\ InitPer
    /\ InitEx
    /\ InitOrg
    /\ InitPin
    /\ DEFAULT_CONFIG = ShippedSections
    /\ config = CopyOfDefault(ShippedSections)
    /\ config_file \in UserFiles
    /\ cfg_last = "none"

NextConfig ==
    \/ \E unreadable \in BOOLEAN : load(unreadable)
    \/ \E key \in ConfigKeys : \E value \in ConfigValues(key) : set(key, value)
    \/ save
    \/ reset

SpecConfig == InitConfig /\ [][NextConfig]_vars

\* C40: after Config.reset(), get(k) returns the shipped default value for
\* every key k, nested keys included, whatever set() calls on this or an
\* earlier Config of the process preceded it; set() never changes the
\* values of DEFAULT_CONFIG.
C40_ResetRestoresShipped ==
    /\ cfg_last = "reset" => \A key \in ConfigKeys : get(key) = ShippedValue(key)
    /\ DEFAULT_CONFIG = ShippedSections

====
